---- MODULE Spec2Model ----
(***************************************************************************)
(* Model of the scatter-gl interaction and picking core (class ScatterPlot *)
(* with its ScatterPlotRectangleSelector and the picking-colour encoding   *)
(* of the point visualizers).                                              *)
(*                                                                         *)
(* Points are kept by their projected screen position in device pixels     *)
(* (what vector3.project(camera) followed by the viewport transform of     *)
(* getPointIndicesFromBoundingBox yields) plus a depth used by the         *)
(* rasteriser to decide which point is on top of a pixel.                  *)
(***************************************************************************)
EXTENDS Integers, Sequences, FiniteSets, TLC

\* ------------------------------------------------------------------ bounds
\* Largest number of points in a dataset of the model.
MaxPoints == 2
\* Width and height of the container in CSS pixels.
CanvasSize == 4
\* Half side (in device pixels) of the square a point sprite covers.
PointRadius == 1

\* ------------------------------------------------------- program constants
SHIFT_KEY == 16
CTRL_KEY == 17
\* id !== 0xffffff
NO_POINT_ID == 16777215
\* styles.backgroundColor default '#ffffff'
DEFAULT_BACKGROUND == 16777215
\* elements of one colour of the point colour buffer
RGBA_NUM_ELEMENTS == 4

\* null (no point) of nearestPoint and lastHovered; no index is negative.
NULL == 0 - 1
\* No value was handed to the hover callback yet.
NEVER == 0 - 2
\* Infinity, the shortest distance util.getNearFarPoints starts from; no depth
\* is negative.
Infinity == 0 - 3
\* The lastBoundingBox of a selector that has not seen a mouse down.
UNDEFINED == [undefined |-> TRUE]

\* ------------------------------------------------------------------ state
VARIABLES
  selectEnabled,            \* ScatterPlot.selectEnabled
  interactionMode,          \* ScatterPlot.interactionMode
  selecting,                \* ScatterPlot.selecting
  nearestPoint,             \* ScatterPlot.nearestPoint
  lastHovered,              \* ScatterPlot.lastHovered
  mouseIsDown,              \* ScatterPlot.mouseIsDown
  isDragSequence,           \* ScatterPlot.isDragSequence
  controlsEnabled,          \* ScatterPlot.orbitCameraControls.enabled
  selIsMouseDown,           \* ScatterPlotRectangleSelector.isMouseDown
  startCoordinates,         \* ScatterPlotRectangleSelector.startCoordinates
  lastBoundingBox,          \* ScatterPlotRectangleSelector.lastBoundingBox
  worldSpacePointPositions, \* ScatterPlot.worldSpacePointPositions (projected)
  visualizers,              \* ScatterPlot.visualizers (ids, insertion order)
  backgroundColor,          \* styles.backgroundColor = renderer clear colour
  devicePixelRatio,         \* window.devicePixelRatio
  pickingTexture,           \* contents of ScatterPlot.pickingTexture
  renderTarget,             \* renderer's current render target
  renderLog,                \* calls made by the last render()
  notes,                    \* callbacks invoked by the last handler
  threw,                    \* the last handler ended by a TypeError
  pointerAt,                \* offset of the last mouse down or move event
  gesture,                  \* the mouse gesture as the DOM delivers it
  shiftHeld,                \* the shift key is physically held
  hoverDelivered,           \* the value the hover callback was last given
  pickId,                   \* a point index handed to createGeometry's loop
  pickColor,                \* its pixel in the picking target (<<>>: not drawn)
  pickDecoded,              \* the id the core decodes from that pixel
  visualizerObjects,        \* ScatterPlot.visualizers (the objects, same order)
  protocolCalls,            \* calls made by the last setActiveVisualizers()
  visualizerState,          \* the fields of one visualizer object
  cameraParams,             \* params.camera given to the constructor
  dimensions,               \* ScatterPlot.dimensions
  camera,                   \* ScatterPlot.camera
  orbitCameraControls,      \* ScatterPlot.orbitCameraControls
  orbitAnimationId,         \* ScatterPlot.orbitAnimationId
  animationFrames,          \* the browser's requestAnimationFrame callbacks
  dataset,                  \* ScatterGL.dataset (its dimensions, or NULL)
  raised,                   \* the error the last call ended by
  orbitCancelled,           \* the orbit was cancelled and not started since
  lastCalls,                \* the last two calls made on the camera's API
  grid,                     \* the CollisionGrid of the frame (makeLabels)
  committedBoxes,           \* the boxes insert() registered in this frame
  labelsDrawn,              \* the boxes of the labels drawn in this frame
  insertCalls,              \* number of insert() calls made in this frame
  lastInsert,               \* the last insert() call and what it returned
  hoverPointIndex,          \* ScatterGL.hoverPointIndex
  selectedPointIndices,     \* ScatterGL.selectedPointIndices (insertion order)
  pointColors,              \* ScatterPlot.pointColors (a buffer, or none)
  pointScaleFactors,        \* ScatterPlot.pointScaleFactors (a buffer, or none)
  labels,                   \* ScatterPlot.labels
  userCalls,                \* the user's callbacks the last call invoked
  facadeCall,               \* the last call that reached the facade's state
  sequences,                \* ScatterGL.sequences
  polylineAttributes,       \* ScatterPlot.polylineColors, polylineOpacities
                            \* and polylineWidths
  selectionMode,            \* ScatterPlotRectangleSelector.selectionMode
  lassoPath,                \* ScatterPlotRectangleSelector.lassoPath
  selectorCall              \* the selector's last handler, where the pointer
                            \* was, its callbacks, where the box began

\* The camera, its controls and the orbit animation.
cameraVars == <<cameraParams, dimensions, camera, orbitCameraControls,
                orbitAnimationId, animationFrames, dataset, raised,
                orbitCancelled, lastCalls>>

\* The canvas labels of one frame.
labelVars == <<grid, committedBoxes, labelsDrawn, insertCalls, lastInsert>>

\* The state observed by the models of single components only.
\* The facade's own fields and the attributes it hands to the plot.
facadeVars == <<hoverPointIndex, selectedPointIndices, pointColors,
                pointScaleFactors, labels, userCalls, facadeCall,
                sequences, polylineAttributes>>

\* The selection surface's mode and lasso.
selectorVars == <<selectionMode, lassoPath, selectorCall>>

parts == <<visualizerObjects, protocolCalls, visualizerState, cameraVars,
           labelVars, facadeVars, selectorVars>>

\* The state of the plot itself.
plotVars == <<selectEnabled, interactionMode, selecting, nearestPoint,
              lastHovered, mouseIsDown, isDragSequence, controlsEnabled,
              selIsMouseDown, startCoordinates, lastBoundingBox,
              worldSpacePointPositions, visualizers, backgroundColor,
              devicePixelRatio, pickingTexture, renderTarget, renderLog,
              notes, threw, pointerAt, gesture, shiftHeld, hoverDelivered,
              pickId, pickColor, pickDecoded>>

vars == <<selectEnabled, interactionMode, selecting, nearestPoint, lastHovered,
          mouseIsDown, isDragSequence, controlsEnabled, selIsMouseDown,
          startCoordinates, lastBoundingBox, worldSpacePointPositions,
          visualizers, backgroundColor, devicePixelRatio, pickingTexture,
          renderTarget, renderLog, notes, threw, pointerAt, gesture,
          shiftHeld, hoverDelivered, pickId, pickColor, pickDecoded, parts>>

\* --------------------------------------------------------------- helpers
Max(a, b) == IF a >= b THEN a ELSE b
Min(a, b) == IF a <= b THEN a ELSE b
Abs(a) == IF a >= 0 THEN a ELSE -a

\* The picking colour with the bytes in the wrong order.
EncodePickingColorLowByteFirst(i) ==
  <<i % 256, (i \div 256) % 256, (i \div 65536) % 256>>

\* new THREE.Color(i): r, g, b are the three bytes of the hex value over 255;
\* the 8-bit render target stores round(255 * channel), i.e. the byte.
EncodePickingColor(i) ==
  <<(i \div 65536) % 256, (i \div 256) % 256, i % 256>>

\* (pixelBuffer[i*4] << 16) | (pixelBuffer[i*4+1] << 8) | pixelBuffer[i*4+2]
DecodePickingId(px) == px[1] * 65536 + px[2] * 256 + px[3]

\* styles.backgroundColor handed to renderer.setClearColor: the clear colour of
\* both passes, as the three bytes the render target stores.
ClearPixel(bg) == <<(bg \div 65536) % 256, (bg \div 256) % 256, bg % 256>>

\* worldSpacePointPositions.length / 3
PointCount(positions) == Len(positions)

\* Width (= height) in device pixels of the canvas and of the picking target:
\* renderer.setPixelRatio(dpr); setSize(w, h); WebGLRenderTarget(w*dpr, h*dpr).
DeviceSize(dpr) == CanvasSize * dpr

\* Ids (0-based) of the points whose sprite covers device pixel (col, row).
Covering(positions, col, row) ==
  {i \in 0..(Len(positions) - 1) :
     /\ Abs(positions[i + 1].x - col) <= PointRadius
     /\ Abs(positions[i + 1].y - row) <= PointRadius}

\* The depth test: the covering point nearest to the camera; among equally deep
\* ones the one drawn last (the larger index).
TopPoint(positions, col, row) ==
  CHOOSE i \in Covering(positions, col, row) :
    \A j \in Covering(positions, col, row) :
      \/ positions[i + 1].z < positions[j + 1].z
      \/ (positions[i + 1].z = positions[j + 1].z /\ i >= j)

\* The scene as the picking pass draws it. A point is drawn in its picking colour
\* when a visualizer that owns point geometry is active.
DrawsPoints(vis) ==
  \E k \in 1..Len(vis) : vis[k] \in {"SPRITES", "3D_LABELS"}

\* renderer.setRenderTarget(pickingTexture); renderer.render(scene, camera)
RenderPickingTexture(positions, vis, bg, dpr) ==
  [size |-> DeviceSize(dpr),
   positions |-> IF DrawsPoints(vis) THEN positions ELSE <<>>,
   clear |-> bg]

\* One RGB pixel of the picking target at screen column col and screen row row
\* (row 0 is the top row).
TexturePixel(tex, col, row) ==
  IF Covering(tex.positions, col, row) # {}
    THEN EncodePickingColor(TopPoint(tex.positions, col, row))
    ELSE ClearPixel(tex.clear)

\* pixelBuffer = new Uint8Array(width * height * 4);
\* readRenderTargetPixels(target, x, target.height - y, width, height, buffer):
\* pixel k of the buffer (row-major, GL rows upwards from target.height - y)
\* is screen column x + k % width and screen row y - 1 - k \div width. The
\* renderer reads only a region that lies inside the target; otherwise the
\* buffer keeps the zeros it was created with.
ReadPixels(tex, x, y, width, height) ==
  IF x >= 0 /\ x + width <= tex.size /\ y - height >= 0 /\ y <= tex.size
    THEN [k \in 0..(width * height - 1) |->
            TexturePixel(tex, x + (k % width), y - 1 - (k \div width))]
    ELSE [k \in 0..(width * height - 1) |-> <<0, 0, 0>>]

\* Ascending sequence of the elements of a finite set of naturals.
RECURSIVE SortedSeq(_)
SortedSeq(S) ==
  IF S = {} THEN <<>>
  ELSE LET m == CHOOSE a \in S : \A b \in S : a <= b
       IN <<m>> \o SortedSeq(S \ {m})

\* Math.floor(v * dpr) for the integer offsets and ratios of the model.
FloorScaled(v, dpr) == v * dpr

\* ScatterPlot.getPointIndicesFromBoundingBoxPickingTexture
GetPointIndicesFromBoundingBoxPickingTexture(box, positions, tex, dpr) ==
  LET pointCount == PointCount(positions)
      x == FloorScaled(box.x, dpr)
      y == FloorScaled(box.y, dpr)
      width == Max(FloorScaled(box.width, dpr), 1)
      height == Max(FloorScaled(box.height, dpr), 1)
      pixelBuffer == ReadPixels(tex, x, y, width, height)
      selected == {id \in 0..(pointCount - 1) :
                     \E k \in DOMAIN pixelBuffer :
                       /\ DecodePickingId(pixelBuffer[k]) = id
                       /\ id # NO_POINT_ID}
  IN SortedSeq(selected)

\* The projection loop of ScatterPlot.getPointIndicesFromBoundingBox.
ProjectedPointIndices(box, positions, dpr) ==
  LET selectionX == FloorScaled(box.x, dpr)
      selectionY == FloorScaled(box.y, dpr)
      selectionWidth == Max(FloorScaled(box.width, dpr), 1)
      selectionHeight == Max(FloorScaled(box.height, dpr), 1)
  IN SortedSeq({i \in 0..(PointCount(positions) - 1) :
       /\ positions[i + 1].x >= selectionX
       /\ positions[i + 1].x <= selectionX + selectionWidth
       /\ positions[i + 1].y <= selectionY
       /\ positions[i + 1].y >= selectionY - selectionHeight})

\* The picking texture used as soon as one side of the box is small.
UsesPickingTextureEitherSide(box, dpr) ==
  \/ Max(FloorScaled(box.width, dpr), 1) <= 2
  \/ Max(FloorScaled(box.height, dpr), 1) <= 2

\* Whether getPointIndicesFromBoundingBox hands the box to the picking texture.
UsesPickingTexture(box, dpr) ==
  /\ Max(FloorScaled(box.width, dpr), 1) <= 2
  /\ Max(FloorScaled(box.height, dpr), 1) <= 2

\* ScatterPlot.getPointIndicesFromBoundingBox
GetPointIndicesFromBoundingBox(box, positions, tex, dpr) ==
  IF UsesPickingTexture(box, dpr)
    THEN GetPointIndicesFromBoundingBoxPickingTexture(box, positions, tex, dpr)
    ELSE ProjectedPointIndices(box, positions, dpr)

\* ScatterPlot.setNearestPointToMouse: the value nearestPoint is set to.
NearestPointToMouse(ex, ey, positions, tex, dpr) ==
  LET pointIndices == GetPointIndicesFromBoundingBoxPickingTexture(
                        [x |-> ex, y |-> ey, width |-> 1, height |-> 1],
                        positions, tex, dpr)
  IN IF Len(pointIndices) > 0 THEN pointIndices[1] ELSE NULL

\* ------------------------------------------------------------ rendering
\* util.getNearFarPoints with the depth of a point as its distance from the
\* camera plane: <<shortestDist, furthestDist>>, <<Infinity, 0>> with no point.
GetNearFarPoints(positions) ==
  IF Len(positions) = 0 THEN <<Infinity, 0>>
  ELSE LET depths == {positions[k].z : k \in 1..Len(positions)}
       IN <<CHOOSE a \in depths : \A b \in depths : a <= b,
            CHOOSE a \in depths : \A b \in depths : a >= b>>

\* new RenderContext(...): what both passes of one render() are handed.
MakeRenderContext(positions, bg) ==
  [width |-> CanvasSize, height |-> CanvasSize,
   nearestCameraSpacePointZ |-> GetNearFarPoints(positions)[1],
   farthestCameraSpacePointZ |-> GetNearFarPoints(positions)[2],
   backgroundColor |-> bg]

\* The display pass made before the picking pass.
RenderCallsDisplayFirst(vis, rc) ==
  [k \in 1..Len(vis) |-> [op |-> "onRender", arg |-> vis[k], rc |-> rc]]
  \o <<[op |-> "draw", arg |-> "screen", rc |-> rc]>>
  \o [k \in 1..Len(vis) |-> [op |-> "onPickingRender", arg |-> vis[k], rc |-> rc]]
  \o <<[op |-> "draw", arg |-> "pickingTexture", rc |-> rc]>>

\* The calls ScatterPlot.render makes, in order: onPickingRender of every active
\* visualizer, the draw into the picking target, onRender of every active
\* visualizer, the draw into the visible target (render target null).
RenderCalls(vis, rc) ==
  [k \in 1..Len(vis) |-> [op |-> "onPickingRender", arg |-> vis[k], rc |-> rc]]
  \o <<[op |-> "draw", arg |-> "pickingTexture", rc |-> rc]>>
  \o [k \in 1..Len(vis) |-> [op |-> "onRender", arg |-> vis[k], rc |-> rc]]
  \o <<[op |-> "draw", arg |-> "screen", rc |-> rc]>>

\* The render target renderer is left with after the calls of a render().
TargetAfter(calls) == calls[Len(calls)].arg

\* ------------------------------------------------------- inputs of the model
PAN == "PAN"
SELECT == "SELECT"

\* Pointer offsets (CSS pixels) the mouse events of the model carry.
MouseSites == {<<0, 1>>, <<CanvasSize - 1, CanvasSize - 1>>}

\* A point of a layout: projected screen position and depth.
PointAt(px, py, pz) == [x |-> px, y |-> py, z |-> pz]

\* Layouts of the interaction model: n points spread along the diagonal, or n
\* points stacked on one pixel (the later ones occluding the earlier ones).
SpreadLayout(n, dpr) ==
  [k \in 1..n |-> PointAt(Min(2 * k - 1, CanvasSize - 1) * dpr,
                          Min(2 * k - 1, CanvasSize - 1) * dpr - 1, 0)]
StackedLayout(n, dpr) == [k \in 1..n |-> PointAt(dpr, dpr - 1, 0)]
Layouts(dpr) == {SpreadLayout(n, dpr) : n \in {0, MaxPoints}}

VisualizerLists == {<<>>, <<"SPRITES">>}

\* A callback invocation: hover and click carry one index (or none), select a
\* list of indices.
PointNote(t, p) == [type |-> t, point |-> p, points |-> <<>>]
SelectNote(ids) == [type |-> "select", point |-> NULL, points |-> ids]

coreVars == <<selectEnabled, interactionMode, selecting, nearestPoint,
              lastHovered, mouseIsDown, isDragSequence, controlsEnabled,
              selIsMouseDown, startCoordinates, lastBoundingBox,
              worldSpacePointPositions, visualizers, backgroundColor,
              devicePixelRatio, pickingTexture, renderTarget, renderLog,
              notes, threw, pointerAt, gesture, shiftHeld,
              hoverDelivered, parts>>

\* ----------------------------------------------------------------- camera
\* Coordinates are in hundredths of a world unit; a zoom of 1.0 is 1.
START_CAMERA_POS_3D == <<45, 90, 160>>
START_CAMERA_TARGET_3D == <<0, 0, 0>>
START_CAMERA_POS_2D == <<0, 0, 400>>
START_CAMERA_TARGET_2D == <<0, 0, 0>>

\* A CameraParams field that was not given: zoom NULL, position or target <<>>.
NoCameraParams == [zoom |-> NULL, position |-> <<>>, target |-> <<>>]

\* if (cameraParams.zoom): undefined and 0 are both falsy.
Truthy(zoom) == zoom # NULL /\ zoom # 0

\* ScatterPlot.makeDefaultCameraDef
makeDefaultCameraDef(dims, params) ==
  LET orthographic == dims = 2
  IN [orthographic |-> orthographic,
      zoom |-> IF Truthy(params.zoom) THEN params.zoom ELSE 1,
      position |-> IF params.position # <<>> THEN params.position
                   ELSE IF orthographic THEN START_CAMERA_POS_2D
                   ELSE START_CAMERA_POS_3D,
      target |-> IF params.target # <<>> THEN params.target
                 ELSE IF orthographic THEN START_CAMERA_TARGET_2D
                 ELSE START_CAMERA_TARGET_3D]

\* Orbit controls that permit rotation whatever the camera is.
makeOrbitControlsRotating(cameraIs3D) ==
  [enableRotate |-> TRUE, autoRotate |-> FALSE, target |-> <<0, 0, 0>>]

\* ScatterPlot.makeOrbitControls: new OrbitControls(camera, domElement); its
\* target is the origin and reset() leaves it there.
makeOrbitControls(cameraIs3D) ==
  [enableRotate |-> cameraIs3D, autoRotate |-> FALSE, target |-> <<0, 0, 0>>]

\* ScatterPlot.makeCamera2D / makeCamera3D and the orbitCameraControls.update()
\* of recreateCamera, which turns the camera to the target of the controls.
\* aspect is the ratio width : height of the projection, as a pair.
CameraOf(cameraDef, controls) ==
  [orthographic |-> cameraDef.orthographic,
   zoom |-> cameraDef.zoom,
   position |-> cameraDef.position,
   target |-> controls.target,
   aspect |-> <<CanvasSize, CanvasSize>>]

\* ScatterPlot.orbitAnimationOnNextCameraCreation: initialised to false and
\* assigned nowhere.
orbitAnimationOnNextCameraCreation == FALSE

\* setDimensions accepting every number.
ValidDimensionsAny(d) == TRUE

\* ScatterPlot.setDimensions: dimensions !== 2 && dimensions !== 3 throws.
ValidDimensions(d) == d = 2 \/ d = 3

\* cancelAnimationFrame left out of stopOrbitAnimation.
CancelledNothing(pending, id) == pending

\* cancelAnimationFrame(id)
Cancelled(pending, id) == pending \ {id}

\* The camera state the ScatterPlot constructor leaves: setDimensions(3) finds
\* dimensions 3 already, makeCamera(params.camera) builds the camera.
CameraConstructedWith(params) ==
  /\ cameraParams = params
  /\ dimensions = 3
  /\ orbitCameraControls = makeOrbitControls(TRUE)
  /\ camera = CameraOf(makeDefaultCameraDef(3, params), orbitCameraControls)
  /\ orbitAnimationId = NULL
  /\ animationFrames = [pending |-> {}, next |-> 1]
  /\ dataset = NULL
  /\ raised = "none"
  /\ orbitCancelled = FALSE
  /\ lastCalls = <<>>

\* ------------------------------------------------------------------- Init
\* The state the ScatterPlot constructor leaves: PAN, nothing hovered, no
\* visualizer, no point, and one render() made by the trailing resize().
PlotConstructedWithStyle(dpr, bg) ==
  /\ selectEnabled \in BOOLEAN
  /\ interactionMode = PAN
  /\ selecting = FALSE
  /\ nearestPoint = NULL
  /\ lastHovered = NULL
  /\ mouseIsDown = FALSE
  /\ isDragSequence = FALSE
  /\ controlsEnabled = TRUE
  /\ selIsMouseDown = FALSE
  /\ startCoordinates = <<0, 0>>
  /\ lastBoundingBox = UNDEFINED
  /\ worldSpacePointPositions = <<>>
  /\ visualizers = <<>>
  /\ backgroundColor = bg
  /\ devicePixelRatio = dpr
  /\ pickingTexture = RenderPickingTexture(<<>>, <<>>, backgroundColor, dpr)
  /\ renderTarget = "screen"
  /\ renderLog = RenderCalls(<<>>, MakeRenderContext(<<>>, backgroundColor))
  /\ notes = <<>>
  /\ threw = FALSE
  /\ pointerAt = <<0, 1>>
  /\ gesture = "none"
  /\ shiftHeld = FALSE
  /\ hoverDelivered = NEVER
  /\ pickId = 0
  /\ pickColor = <<>>
  /\ pickDecoded = NULL
  /\ visualizerObjects = <<>>
  /\ protocolCalls = <<>>
  /\ visualizerState = [kind |-> "none", error |-> FALSE]

\* The constructor with the default styles.
PlotConstructedWith(dpr) == PlotConstructedWithStyle(dpr, DEFAULT_BACKGROUND)

\* The canvas labels visualizer before its first frame: no grid, no label.
NoLabels ==
  /\ grid = {}
  /\ committedBoxes = <<>>
  /\ labelsDrawn = <<>>
  /\ insertCalls = 0
  /\ lastInsert = [called |-> FALSE]

\* An attribute buffer of the plot: not set yet, or the elements of the typed
\* array it was handed.
NoBuffer == [set |-> FALSE, values |-> <<>>]
Buffer(values) == [set |-> TRUE, values |-> values]

\* The label parameters of a plot no setLabels() call has reached.
NoLabelParams == [set |-> FALSE, pointIndices |-> <<>>, labelStrings |-> <<>>]

\* ScatterPlot.polylineColors (the length of the array of each polyline),
\* polylineOpacities and polylineWidths before any is set.
NoPolylineAttributes ==
  [polylineColors |-> <<>>, polylineOpacities |-> <<>>,
   polylineWidths |-> <<>>]

\* The facade after its constructor: nothing hovered, nothing selected, no
\* attribute handed to the plot (there is no dataset yet).
FacadeConstructed ==
  /\ hoverPointIndex = NULL
  /\ selectedPointIndices = <<>>
  /\ pointColors = NoBuffer
  /\ pointScaleFactors = NoBuffer
  /\ labels = NoLabelParams
  /\ userCalls = <<>>
  /\ facadeCall = [type |-> "none", point |-> NULL, points |-> <<>>]
  /\ sequences = <<>>
  /\ polylineAttributes = NoPolylineAttributes

\* The selection surface after its constructor: BOX mode, no lasso.
SelectorConstructed ==
  /\ selectionMode = "BOX"
  /\ lassoPath = <<>>
  /\ selectorCall = [op |-> "none", callbacks |-> <<>>, at |-> <<>>,
                     start |-> <<>>]

\* The state after new ScatterPlot(container, params) without params.camera.
ConstructedWith(dpr) ==
  /\ PlotConstructedWith(dpr)
  /\ CameraConstructedWith(NoCameraParams)
  /\ NoLabels
  /\ FacadeConstructed
  /\ SelectorConstructed

\* The interaction model runs with window.devicePixelRatio = 1.
Init == ConstructedWith(1)

\* this.render() inside a handler (no handler that renders changes the
\* positions or the active visualizers).
DoRender ==
  /\ pickingTexture' = RenderPickingTexture(worldSpacePointPositions,
                         visualizers, backgroundColor, devicePixelRatio)
  /\ renderLog' = RenderCalls(visualizers,
                    MakeRenderContext(worldSpacePointPositions, backgroundColor))
  /\ renderTarget' = TargetAfter(renderLog')

\* this.render() after setPointPositions(positions) in the same handler.
DoRenderOf(positions) ==
  /\ pickingTexture' = RenderPickingTexture(positions, visualizers,
                         backgroundColor, devicePixelRatio)
  /\ renderLog' = RenderCalls(visualizers,
                    MakeRenderContext(positions, backgroundColor))
  /\ renderTarget' = TargetAfter(renderLog')

NoRender == UNCHANGED <<pickingTexture, renderLog, renderTarget>>

Scene == <<worldSpacePointPositions, visualizers, backgroundColor,
           devicePixelRatio, selectEnabled, pickId, pickColor, pickDecoded,
           parts>>

\* -------------------------------------------------- the selection surface
\* ScatterPlotRectangleSelector.onMouseDown, BOX mode: the box it starts.
SelectorMouseDownBox(offsetX, offsetY) ==
  [x |-> offsetX, y |-> offsetY, width |-> 1, height |-> 1]

\* The box with its top left corner as (x, y).
SelectorMouseMoveBoxTopLeft(start, offsetX, offsetY) ==
  LET bx == Min(offsetX, start[1])
      by == Min(offsetY, start[2])
  IN [x |-> bx, y |-> by,
      width |-> Max(offsetX, start[1]) - bx,
      height |-> Max(offsetY, start[2]) - by]

\* ScatterPlotRectangleSelector.onMouseMove, BOX mode: the box after a move to
\* (offsetX, offsetY) of a gesture started at start.
SelectorMouseMoveBox(start, offsetX, offsetY) ==
  LET bx == Min(offsetX, start[1])
      by == Max(offsetY, start[2])
  IN [x |-> bx, y |-> by,
      width |-> Max(offsetX, start[1]) - bx,
      height |-> by - Min(offsetY, start[2])]

\* ------------------------------------------------------------- handlers
\* ScatterPlot.onMouseDown. The ctrl-key branches only swap the orbit and pan
\* buttons of the camera controls and touch nothing of this state.
OnMouseDown(ex, ey) ==
  /\ isDragSequence' = FALSE
  /\ mouseIsDown' = TRUE
  /\ IF selecting
       THEN /\ controlsEnabled' = FALSE
            /\ selIsMouseDown' = TRUE
            /\ startCoordinates' = <<ex, ey>>
            /\ lastBoundingBox' = SelectorMouseDownBox(ex, ey)
            /\ nearestPoint' = NearestPointToMouse(ex, ey,
                 worldSpacePointPositions, pickingTexture, devicePixelRatio)
       ELSE UNCHANGED <<controlsEnabled, selIsMouseDown, startCoordinates,
                        lastBoundingBox, nearestPoint>>
  /\ notes' = <<>>
  /\ threw' = FALSE
  /\ UNCHANGED <<interactionMode, selecting, lastHovered, Scene>>
  /\ NoRender

\* The selection of a click (the hovered point) sent for a box.
SelectBoundingBoxNoteNearest(box) ==
  SelectNote(IF nearestPoint # NULL THEN <<nearestPoint>> ELSE <<>>)

\* ScatterPlot.selectBoundingBox: the notification it sends for a box.
SelectBoundingBoxNote(box) ==
  SelectNote(GetPointIndicesFromBoundingBox(box, worldSpacePointPositions,
                   pickingTexture, devicePixelRatio))

\* ScatterPlot.onMouseUp with ScatterPlotRectangleSelector.onMouseUp. A selector
\* that never saw a mouse down hands its undefined lastBoundingBox to
\* selectBoundingBox, whose read of boundingBox.x throws; the rest of the
\* handler (render, mouseIsDown = false) is then skipped.
OnMouseUp ==
  /\ IF selecting
       THEN /\ controlsEnabled' = TRUE
            /\ selIsMouseDown' = FALSE
            /\ IF lastBoundingBox = UNDEFINED
                 THEN /\ threw' = TRUE
                      /\ notes' = <<>>
                      /\ UNCHANGED mouseIsDown
                      /\ NoRender
                 ELSE /\ threw' = FALSE
                      /\ notes' = <<SelectBoundingBoxNote(lastBoundingBox)>>
                      /\ mouseIsDown' = FALSE
                      /\ DoRender
       ELSE /\ mouseIsDown' = FALSE
            /\ threw' = FALSE
            /\ notes' = <<>>
            /\ UNCHANGED <<controlsEnabled, selIsMouseDown>>
            /\ NoRender
  /\ UNCHANGED <<interactionMode, selecting, nearestPoint, lastHovered,
                 isDragSequence, startCoordinates, lastBoundingBox, Scene>>

\* A hover callback on every resolution, changed or not.
HoverChangedAlways(nearest, last) == TRUE

\* this.nearestPoint != this.lastHovered
HoverChanged(nearest, last) == nearest # last

\* ScatterPlot.onMouseMove with ScatterPlotRectangleSelector.onMouseMove.
OnMouseMove(ex, ey) ==
  /\ isDragSequence' = mouseIsDown
  /\ threw' = FALSE
  /\ IF selecting /\ mouseIsDown
       THEN /\ lastBoundingBox' =
                 IF selIsMouseDown
                   THEN SelectorMouseMoveBox(startCoordinates, ex, ey)
                   ELSE lastBoundingBox
            /\ notes' = <<>>
            /\ UNCHANGED <<nearestPoint, lastHovered>>
            /\ DoRender
       ELSE IF ~mouseIsDown
         THEN /\ nearestPoint' = NearestPointToMouse(ex, ey,
                   worldSpacePointPositions, pickingTexture, devicePixelRatio)
              /\ IF HoverChanged(nearestPoint', lastHovered)
                   THEN /\ lastHovered' = nearestPoint'
                        /\ notes' = <<PointNote("hover", nearestPoint')>>
                   ELSE /\ UNCHANGED lastHovered
                        /\ notes' = <<>>
              /\ UNCHANGED lastBoundingBox
              /\ NoRender
         ELSE /\ notes' = <<>>
              /\ UNCHANGED <<nearestPoint, lastHovered, lastBoundingBox>>
              /\ NoRender
  /\ UNCHANGED <<interactionMode, selecting, mouseIsDown, controlsEnabled,
                 selIsMouseDown, startCoordinates, Scene>>

\* Click handlers called whether or not the gesture was a drag.
ClickNotifiesAfterDrag(drag, notify) == notify

\* !this.isDragSequence && notify
ClickNotifies(drag, notify) == ~drag /\ notify

\* ScatterPlot.onClick(e, notify): e is null when clickOnPoint calls it.
OnClick(hasEvent, notify) ==
  IF hasEvent /\ selecting
    THEN /\ notes' = <<>>
         /\ UNCHANGED isDragSequence
         /\ NoRender
    ELSE /\ notes' =
              IF ClickNotifies(isDragSequence, notify)
                THEN <<SelectNote(IF nearestPoint' # NULL
                                        THEN <<nearestPoint'>> ELSE <<>>),
                       PointNote("click", nearestPoint')>>
                ELSE <<>>
         /\ isDragSequence' = FALSE
         /\ DoRender

\* ScatterPlot.onKeyDown. The ctrl key only swaps the buttons of the camera
\* controls.
OnKeyDown(keyCode) ==
  /\ IF keyCode = SHIFT_KEY /\ selectEnabled
       THEN selecting' = TRUE
       ELSE UNCHANGED selecting
  /\ notes' = <<>>
  /\ threw' = FALSE
  /\ UNCHANGED <<interactionMode, nearestPoint, lastHovered, mouseIsDown,
                 isDragSequence, controlsEnabled, selIsMouseDown,
                 startCoordinates, lastBoundingBox, Scene>>
  /\ NoRender

\* A key up that leaves the selecting flag alone.
OnKeyUpKeepsSelecting(keyCode) ==
  /\ UNCHANGED selecting
  /\ IF keyCode = SHIFT_KEY /\ selectEnabled THEN DoRender ELSE NoRender
  /\ notes' = <<>>
  /\ threw' = FALSE
  /\ UNCHANGED <<interactionMode, nearestPoint, lastHovered, mouseIsDown,
                 isDragSequence, controlsEnabled, selIsMouseDown,
                 startCoordinates, lastBoundingBox, Scene>>

\* ScatterPlot.onKeyUp
OnKeyUp(keyCode) ==
  /\ IF keyCode = SHIFT_KEY /\ selectEnabled
       THEN selecting' = FALSE /\ DoRender
       ELSE UNCHANGED selecting /\ NoRender
  /\ notes' = <<>>
  /\ threw' = FALSE
  /\ UNCHANGED <<interactionMode, nearestPoint, lastHovered, mouseIsDown,
                 isDragSequence, controlsEnabled, selIsMouseDown,
                 startCoordinates, lastBoundingBox, Scene>>

\* ScatterPlot.setInteractionMode
OnSetInteractionMode(mode) ==
  /\ interactionMode' = mode
  /\ selecting' = (mode = SELECT)

\* Map.delete of the visualizers that are not wanted, then Map.set of the wanted
\* ones: a kept id keeps its place, a new id goes to the end.
NextVisualizers(cur, wanted) ==
  LET inWanted(id) == \E k \in 1..Len(wanted) : wanted[k] = id
      inCur(id) == \E k \in 1..Len(cur) : cur[k] = id
      kept == SelectSeq(cur, inWanted)
      IsNew(id) == ~inCur(id)
  IN kept \o SelectSeq(wanted, IsNew)

\* ------------------------------------------------------------- actions
\* gesture follows the mouse events the DOM delivers: "down" after a mouse
\* down, "moved" after a mouse move with the button held, "released" and
\* "releasedMoved" after the mouse up that ends them. A gesture during which
\* clickOnPoint was called is "mixed". A pending click is delivered right after
\* the mouse up or not at all; any other input keeps a gesture that is still
\* held and drops a pending click.
Held == {"down", "moved", "mixed"}
KeepGesture == gesture' = IF gesture \in Held THEN gesture ELSE "none"

MouseDown ==
  \E site \in MouseSites :
    /\ OnMouseDown(site[1], site[2])
    /\ pointerAt' = site
    /\ gesture' = "down"
    /\ UNCHANGED <<shiftHeld, hoverDelivered>>

MouseMoveOver(sites) ==
  \E site \in sites :
    /\ OnMouseMove(site[1], site[2])
    /\ pointerAt' = site
    /\ gesture' = CASE gesture \in {"down", "moved"} -> "moved"
                    [] gesture = "mixed" -> "mixed"
                    [] OTHER -> "none"
    /\ hoverDelivered' =
         IF \E k \in DOMAIN notes' : notes'[k].type = "hover"
           THEN nearestPoint' ELSE hoverDelivered
    /\ UNCHANGED shiftHeld

MouseMove == MouseMoveOver(MouseSites)

MouseUp ==
  /\ OnMouseUp
  /\ UNCHANGED pointerAt
  /\ gesture' = CASE gesture = "down" -> "released"
                  [] gesture = "moved" -> "releasedMoved"
                  [] gesture = "mixed" -> "releasedMixed"
                  [] OTHER -> "none"
  /\ UNCHANGED <<shiftHeld, hoverDelivered>>

Click ==
  /\ gesture \in {"released", "releasedMoved", "releasedMixed"}
  /\ UNCHANGED nearestPoint
  /\ UNCHANGED <<interactionMode, selecting, lastHovered, mouseIsDown,
                 controlsEnabled, selIsMouseDown, startCoordinates,
                 lastBoundingBox, Scene>>
  /\ OnClick(TRUE, TRUE)
  /\ threw' = FALSE
  /\ UNCHANGED pointerAt
  /\ gesture' = "none"
  /\ UNCHANGED <<shiftHeld, hoverDelivered>>

KeyDown ==
  \E keyCode \in {SHIFT_KEY, CTRL_KEY} :
    /\ OnKeyDown(keyCode)
    /\ UNCHANGED pointerAt
    /\ shiftHeld' = IF keyCode = SHIFT_KEY THEN TRUE ELSE shiftHeld
    /\ UNCHANGED hoverDelivered
    /\ KeepGesture

KeyUp ==
  \E keyCode \in {SHIFT_KEY, CTRL_KEY} :
    /\ OnKeyUp(keyCode)
    /\ UNCHANGED pointerAt
    /\ shiftHeld' = IF keyCode = SHIFT_KEY THEN FALSE ELSE shiftHeld
    /\ UNCHANGED hoverDelivered
    /\ KeepGesture

SetInteractionMode ==
  \E mode \in {PAN, SELECT} :
    /\ OnSetInteractionMode(mode)
    /\ notes' = <<>>
    /\ threw' = FALSE
    /\ UNCHANGED pointerAt
    /\ UNCHANGED <<nearestPoint, lastHovered, mouseIsDown, isDragSequence,
                   controlsEnabled, selIsMouseDown, startCoordinates,
                   lastBoundingBox, Scene, shiftHeld, hoverDelivered>>
    /\ NoRender
    /\ KeepGesture

\* ScatterPlot.setPointPositions with a layout of a set of layouts.
SetPointPositionsOf(layouts) ==
  \E positions \in layouts :
    /\ worldSpacePointPositions' = positions
    /\ notes' = <<>>
    /\ threw' = FALSE
    /\ UNCHANGED pointerAt
    /\ UNCHANGED <<interactionMode, selecting, nearestPoint, lastHovered,
                   mouseIsDown, isDragSequence, controlsEnabled,
                   selIsMouseDown, startCoordinates, lastBoundingBox,
                   visualizers, backgroundColor, devicePixelRatio,
                   selectEnabled, pickId, pickColor, pickDecoded, parts,
                   shiftHeld, hoverDelivered>>
    /\ NoRender
    /\ KeepGesture

\* ScatterPlot.setActiveVisualizers with a list of lists.
SetActiveVisualizersOf(lists) ==
  \E wanted \in lists :
    /\ visualizers' = NextVisualizers(visualizers, wanted)
    /\ notes' = <<>>
    /\ threw' = FALSE
    /\ UNCHANGED pointerAt
    /\ UNCHANGED <<interactionMode, selecting, nearestPoint, lastHovered,
                   mouseIsDown, isDragSequence, controlsEnabled,
                   selIsMouseDown, startCoordinates, lastBoundingBox,
                   worldSpacePointPositions, backgroundColor,
                   devicePixelRatio, selectEnabled, pickId, pickColor, pickDecoded, parts,
                   shiftHeld, hoverDelivered>>
    /\ NoRender
    /\ KeepGesture

SetActiveVisualizers == SetActiveVisualizersOf(VisualizerLists)

SetPointPositions == SetPointPositionsOf(Layouts(devicePixelRatio))

\* ScatterPlot.render
Render ==
  /\ UNCHANGED <<interactionMode, selecting, nearestPoint, lastHovered,
                 mouseIsDown, isDragSequence, controlsEnabled, selIsMouseDown,
                 startCoordinates, lastBoundingBox, Scene, shiftHeld, hoverDelivered>>
  /\ DoRender
  /\ notes' = <<>>
  /\ threw' = FALSE
  /\ UNCHANGED pointerAt
  /\ KeepGesture

\* ScatterPlot.clickOnPoint
ClickOnPoint ==
  \E pointIndex \in 0..(MaxPoints - 1) :
    /\ nearestPoint' = pointIndex
    /\ UNCHANGED <<interactionMode, selecting, lastHovered, mouseIsDown,
                   controlsEnabled, selIsMouseDown, startCoordinates,
                   lastBoundingBox, Scene, shiftHeld, hoverDelivered>>
    /\ OnClick(FALSE, FALSE)
    /\ threw' = FALSE
    /\ UNCHANGED pointerAt
    /\ gesture' = IF gesture \in Held THEN "mixed" ELSE "none"

Next ==
  \/ MouseDown
  \/ MouseMove
  \/ MouseUp
  \/ Click
  \/ KeyDown
  \/ KeyUp
  \/ SetInteractionMode
  \/ SetPointPositions
  \/ SetActiveVisualizers
  \/ Render
  \/ ClickOnPoint

Spec == Init /\ [][Next]_vars

\* ------------------------------------------------ picking-id round trip
\* Byte values the sampled point indices are built from.
ByteSamples == {0, 1, 127, 128, 254, 255}

\* Sampled point indices i with 0 <= i < N for the largest N, 2^24 - 1.
PickIds ==
  {a * 65536 + b * 256 + c : a \in ByteSamples, b \in ByteSamples,
                              c \in ByteSamples} \ {NO_POINT_ID}

InitPick ==
  /\ Init
  /\ selectEnabled = TRUE

\* createGeometry fills pickingColors for index i; the picking pass writes the
\* colour to the pixels the point covers.
DrawPickingColor ==
  /\ pickColor = <<>>
  /\ \E i \in PickIds :
       /\ pickId' = i
       /\ pickColor' = EncodePickingColor(i)
  /\ UNCHANGED <<coreVars, pickDecoded>>

\* The decoding loop of getPointIndicesFromBoundingBoxPickingTexture.
ReadPickingColor ==
  /\ pickColor # <<>>
  /\ pickDecoded = NULL
  /\ pickDecoded' = DecodePickingId(pickColor)
  /\ UNCHANGED <<coreVars, pickId, pickColor>>

NextPick ==
  \/ DrawPickingColor
  \/ ReadPickingColor

SpecPick == InitPick /\ [][NextPick]_vars

\* C1: every point index below 2^24 - 1, drawn as its picking colour and
\* decoded from the pixel, comes back unchanged, and its picking colour is never
\* the reserved colour 0xFFFFFF of "no point".
PickingIdRoundTrip ==
  /\ pickDecoded # NULL => pickDecoded = pickId
  /\ pickColor # <<>> =>
       /\ pickColor # <<255, 255, 255>>
       /\ DecodePickingId(pickColor) # NO_POINT_ID

\* The largest valid index has been drawn and decoded.
PickingIdRoundTripWitness == pickDecoded # NULL /\ pickId = NO_POINT_ID - 1

\* ------------------------------------------------- interaction claims
HasNote(ns, t) == \E k \in DOMAIN ns : ns[k].type = t
NotesOf(ns, t) == {k \in DOMAIN ns : ns[k].type = t}

\* C2: a hover notification is sent only by a pointer move with the button not
\* held, carries the index just resolved, and that index differs from the one
\* the callback was given last (none before the first notification), so no two
\* consecutive hover notifications carry the same value.
HoverOnlyOnChange ==
  [][\A k \in DOMAIN notes' :
       notes'[k].type = "hover" =>
         /\ MouseMove
         /\ gesture \notin Held
         /\ Len(notes') = 1
         /\ notes'[k].point = nearestPoint'
         /\ notes'[k].point #
              (IF hoverDelivered = NEVER THEN NULL ELSE hoverDelivered)]_vars

\* A hover notification "none" was sent: the pointer left a hovered point.
HoverOnlyOnChangeWitness ==
  /\ notes = <<PointNote("hover", NULL)>>
  /\ hoverDelivered = NULL

\* C3: in PAN the click that ends a gesture pointerDown, pointerUp with no
\* pointerMove while the button was held invokes the click callback exactly
\* once, with the resolved hover index (or none); the click that ends a gesture
\* with a pointerMove while the button was held does not invoke it.
ClickVersusDrag ==
  [][(Click /\ ~selecting) =>
       /\ gesture = "released" =>
            /\ Cardinality(NotesOf(notes', "click")) = 1
            /\ \A k \in NotesOf(notes', "click") : notes'[k].point = nearestPoint
       /\ gesture = "releasedMoved" => NotesOf(notes', "click") = {}]_vars

\* A click on a point was notified.
ClickVersusDragWitness ==
  /\ HasNote(notes, "click")
  /\ nearestPoint # NULL
  /\ ~selecting

\* C4: the pointerUp that ends, in SELECT, a gesture handed to the selection
\* surface finalizes it, sends exactly one select notification which holds the
\* indices resolved from the surface's rectangle, and leaves the camera
\* controls enabled.
SelectGestureFinalized ==
  [][(MouseUp /\ selecting /\ selIsMouseDown) =>
       /\ ~selIsMouseDown'
       /\ controlsEnabled'
       /\ ~threw'
       /\ Len(notes') = 1
       /\ notes'[1].type = "select"
       /\ notes'[1].points = GetPointIndicesFromBoundingBox(lastBoundingBox,
            worldSpacePointPositions, pickingTexture, devicePixelRatio)]_vars

\* A dragged rectangle was resolved to a non-empty selection.
SelectGestureFinalizedWitness ==
  /\ Len(notes) = 1
  /\ notes[1].type = "select"
  /\ notes[1].points # <<>>
  /\ lastBoundingBox # UNDEFINED
  /\ lastBoundingBox.width > 2
  /\ selecting
  /\ controlsEnabled
  /\ ~selIsMouseDown

\* C5: every pointerDown, in PAN as in SELECT, sets the resolved hover index to
\* the point under the pointer.
PointerDownResolvesHover ==
  [][MouseDown =>
       nearestPoint' = NearestPointToMouse(pointerAt'[1], pointerAt'[2],
         worldSpacePointPositions, pickingTexture, devicePixelRatio)]_vars

\* C6 as claimed: when selection is permitted the machine is in SELECT for as
\* long as the shift key is held.
ModifierKeyHoldsSelect == (selectEnabled /\ shiftHeld) => selecting

\* C6 amended: when selection is permitted, pressing shift puts the machine in
\* SELECT, it stays there while the key is held unless setInteractionMode is
\* called, and releasing the key puts it in PAN; when selection is not
\* permitted the key changes nothing.
ModifierKeyToggle ==
  [][/\ (selectEnabled /\ ~shiftHeld /\ shiftHeld') => selecting'
     /\ (selectEnabled /\ shiftHeld /\ shiftHeld' /\ selecting
           /\ ~SetInteractionMode) => selecting'
     /\ (selectEnabled /\ shiftHeld /\ ~shiftHeld') => ~selecting'
     /\ (~selectEnabled /\ shiftHeld' # shiftHeld) =>
          UNCHANGED <<interactionMode, selecting, nearestPoint, lastHovered,
                      mouseIsDown, isDragSequence, controlsEnabled,
                      selIsMouseDown, startCoordinates, lastBoundingBox,
                      pickingTexture, renderLog>>]_vars

\* The key is held and the machine is in SELECT though the mode set is PAN.
ModifierKeyToggleWitness ==
  /\ selectEnabled
  /\ shiftHeld
  /\ selecting
  /\ interactionMode = PAN

\* C7: a pointerUp with no matching pointerDown changes no interaction state
\* and sends no notification, in PAN and in SELECT.
StrayPointerUpIsNoOp ==
  [][(MouseUp /\ gesture \notin Held) =>
       /\ UNCHANGED <<controlsEnabled, selIsMouseDown, startCoordinates,
                      lastBoundingBox, nearestPoint, lastHovered>>
       /\ notes' = <<>>]_vars

\* ------------------------------------------------------- dual-pass render
\* Every list of distinct visualizer ids setActiveVisualizers may be handed.
RenderVisualizerIds == {"SPRITES", "CANVAS_LABELS", "POLYLINES"}
RenderVisualizerLists ==
  {vis \in UNION {[1..n -> RenderVisualizerIds] : n \in 0..Cardinality(RenderVisualizerIds)} :
     \A j \in DOMAIN vis : \A k \in DOMAIN vis : vis[j] = vis[k] => j = k}

InitRender ==
  /\ ConstructedWith(1)
  /\ selectEnabled = TRUE

SetRenderVisualizers == SetActiveVisualizersOf(RenderVisualizerLists)

NextRender ==
  \/ SetRenderVisualizers
  \/ SetPointPositions
  \/ Render

SpecRender == InitRender /\ [][NextRender]_vars

CallsOf(log, op, arg) ==
  {k \in DOMAIN log : log[k].op = op /\ log[k].arg = arg}

\* C8: in every render() each active visualizer receives onPickingRender before
\* the one draw into the picking target, that draw precedes every onRender,
\* each active visualizer receives onRender before the one draw into the
\* visible target, every call is handed the same render context, and render()
\* leaves the visible target as the render target.
DualPassOrdering ==
  [][Render =>
       LET log == renderLog'
           pickingDraw == CallsOf(log, "draw", "pickingTexture")
           screenDraw == CallsOf(log, "draw", "screen")
       IN /\ Cardinality(pickingDraw) = 1
          /\ Cardinality(screenDraw) = 1
          /\ \A v \in 1..Len(visualizers) :
               /\ \E k \in CallsOf(log, "onPickingRender", visualizers[v]) :
                    \A d \in pickingDraw : k < d
               /\ \E k \in CallsOf(log, "onRender", visualizers[v]) :
                    \A d \in screenDraw : k < d
          /\ \A k \in DOMAIN log :
               /\ log[k].op = "onPickingRender" =>
                    \A d \in pickingDraw : k < d
               /\ log[k].op = "onRender" =>
                    /\ \A d \in pickingDraw : d < k
                    /\ \A d \in screenDraw : k < d
               /\ log[k].rc = log[1].rc
          /\ \A d \in pickingDraw : \A e \in screenDraw : d < e
          /\ renderTarget' = "screen"]_vars

\* A render with three active visualizers and points has been made.
DualPassOrderingWitness ==
  /\ Len(visualizers) = 3
  /\ Len(renderLog) = 8
  /\ renderLog[1].arg = visualizers[1]
  /\ renderLog[1].rc.farthestCameraSpacePointZ # Infinity
  /\ renderLog[1].rc.nearestCameraSpacePointZ # Infinity
  /\ renderTarget = "screen"

\* ------------------------------------------------ rectangle resolution
DevicePixelRatios == {1, 2}

\* Layouts of the selection model at device pixel ratio dpr: no point, points
\* spread along the diagonal, points stacked on one pixel.
SelectLayouts(dpr) ==
  {SpreadLayout(n, dpr) : n \in {0, MaxPoints}}
  \cup {StackedLayout(MaxPoints, dpr)}

\* The boxes (CSS pixels) the selection surface can hand to selectBoundingBox:
\* x, y is the lower left corner, the box extends to the right and upwards.
SelectionBoxes ==
  {box \in [x : 0..(CanvasSize - 1), y : 0..(CanvasSize - 1),
            width : 0..(CanvasSize - 1), height : 0..(CanvasSize - 1)] :
     /\ box.x + box.width <= CanvasSize - 1
     /\ box.y - box.height >= 0}

InitSelect ==
  /\ \E dpr \in DevicePixelRatios : ConstructedWith(dpr)
  /\ selectEnabled = TRUE

SetSelectPointPositions ==
  SetPointPositionsOf(SelectLayouts(devicePixelRatio))

\* ScatterPlot.selectBoundingBox called by the selection surface with its box.
SelectBoundingBox ==
  \E box \in SelectionBoxes :
    /\ lastBoundingBox' = box
    /\ notes' = <<SelectBoundingBoxNote(box)>>
    /\ threw' = FALSE
    /\ UNCHANGED <<interactionMode, selecting, nearestPoint, lastHovered,
                   mouseIsDown, isDragSequence, controlsEnabled,
                   selIsMouseDown, startCoordinates, Scene, shiftHeld,
                   hoverDelivered, pointerAt, gesture>>
    /\ NoRender

NextSelect ==
  \/ SetActiveVisualizers
  \/ SetSelectPointPositions
  \/ Render
  \/ SelectBoundingBox

SpecSelect == InitSelect /\ [][NextSelect]_vars

\* A select notification for lastBoundingBox is the last thing that happened.
Resolved == notes # <<>> /\ notes[1].type = "select"

\* Indices of the points whose projected position lies in the rectangle that
\* starts at (x, y) and is w wide and h high, edges included.
PointsInside(positions, x, y, w, h) ==
  {i \in 0..(Len(positions) - 1) :
     /\ x <= positions[i + 1].x /\ positions[i + 1].x <= x + w
     /\ y - h <= positions[i + 1].y /\ positions[i + 1].y <= y}

SetOf(seq) == {seq[k] : k \in DOMAIN seq}

\* C9 as claimed: a rectangle at most 2 x 2 device pixels is resolved by
\* readback of the picking surface, every other one to exactly the indices of
\* the points whose projected position lies inside the rectangle.
ResolutionByRegionSize ==
  Resolved =>
    LET box == lastBoundingBox
        dpr == devicePixelRatio
    IN IF box.width * dpr <= 2 /\ box.height * dpr <= 2
         THEN notes[1].points = GetPointIndicesFromBoundingBoxPickingTexture(
                box, worldSpacePointPositions, pickingTexture, dpr)
         ELSE /\ SetOf(notes[1].points) = PointsInside(worldSpacePointPositions,
                   box.x * dpr, box.y * dpr, box.width * dpr, box.height * dpr)
              /\ Len(notes[1].points) = Cardinality(SetOf(notes[1].points))

\* C9 amended: a rectangle at most 2 x 2 device pixels is resolved by readback
\* of the picking surface, every other one to exactly the indices of the points
\* whose projected position lies inside the rectangle with its width and its
\* height taken as at least one device pixel, occluded points included and
\* whatever the picking surface holds.
ResolutionByClampedRegionSize ==
  Resolved =>
    LET box == lastBoundingBox
        dpr == devicePixelRatio
    IN IF box.width * dpr <= 2 /\ box.height * dpr <= 2
         THEN notes[1].points = GetPointIndicesFromBoundingBoxPickingTexture(
                box, worldSpacePointPositions, pickingTexture, dpr)
         ELSE /\ SetOf(notes[1].points) = PointsInside(worldSpacePointPositions,
                   box.x * dpr, box.y * dpr,
                   Max(box.width * dpr, 1), Max(box.height * dpr, 1))
              /\ Len(notes[1].points) = Cardinality(SetOf(notes[1].points))

\* A large rectangle was resolved to an occluded point and the point that
\* hides it, while the picking surface holds no point at all.
ResolutionByClampedRegionSizeWitness ==
  /\ Resolved
  /\ lastBoundingBox.width * devicePixelRatio > 2
  /\ Len(notes[1].points) = MaxPoints
  /\ worldSpacePointPositions = StackedLayout(MaxPoints, devicePixelRatio)
  /\ pickingTexture.positions = <<>>

Contained(inner, outer) ==
  /\ outer.x <= inner.x
  /\ inner.x + inner.width <= outer.x + outer.width
  /\ inner.y <= outer.y
  /\ outer.y - outer.height <= inner.y - inner.height

\* C10: with the layout and the camera unchanged, the indices returned for a
\* rectangle contained in the rectangle just resolved are among the indices
\* returned for that rectangle.
SelectionMonotone ==
  Resolved =>
    \A inner \in SelectionBoxes :
      Contained(inner, lastBoundingBox) =>
        SetOf(GetPointIndicesFromBoundingBox(inner, worldSpacePointPositions,
                pickingTexture, devicePixelRatio))
          \subseteq SetOf(notes[1].points)

\* ------------------------------------------------------ hover resolution
\* Points tiled along one row of device pixels, the sprite of point i + 1 just
\* left of the sprite of point i.
ReversedLayout(n) ==
  [k \in 1..n |-> PointAt((n - k) * (2 * PointRadius + 1) + PointRadius, 1, 0)]

HoverLayouts(dpr) == SelectLayouts(dpr) \cup {ReversedLayout(MaxPoints)}

\* Every offset of the canvas a mouse event may carry.
HoverSites == (0..(CanvasSize - 1)) \X (0..(CanvasSize - 1))

InitHover ==
  /\ \E dpr \in DevicePixelRatios : ConstructedWith(dpr)
  /\ selectEnabled = FALSE

SetHoverPointPositions == SetPointPositionsOf(HoverLayouts(devicePixelRatio))

MouseMoveAnywhere == MouseMoveOver(HoverSites)

NextHover ==
  \/ SetActiveVisualizers
  \/ SetHoverPointPositions
  \/ Render
  \/ MouseMoveAnywhere

SpecHover == InitHover /\ [][NextHover]_vars

\* The device pixels of the region of a mouse event at (ex, ey), in the order
\* of the read-back buffer.
HoverRegion(ex, ey, dpr) ==
  [k \in 1..(dpr * dpr) |->
     <<ex * dpr + ((k - 1) % dpr), ey * dpr - 1 - ((k - 1) \div dpr)>>]

\* The index a pixel of the picking surface holds: the reserved one for the
\* background and for a pixel that is not part of the surface.
IndexAt(tex, px) ==
  IF px[1] < 0 \/ px[1] >= tex.size \/ px[2] < 0 \/ px[2] >= tex.size
    THEN NO_POINT_ID
    ELSE IF Covering(tex.positions, px[1], px[2]) = {}
      THEN NO_POINT_ID
      ELSE TopPoint(tex.positions, px[1], px[2])

FirstNonBackground(tex, region) ==
  IF \A k \in DOMAIN region : IndexAt(tex, region[k]) = NO_POINT_ID
    THEN NULL
    ELSE IndexAt(tex, region[CHOOSE k \in DOMAIN region :
           /\ IndexAt(tex, region[k]) # NO_POINT_ID
           /\ \A j \in 1..(k - 1) : IndexAt(tex, region[j]) = NO_POINT_ID])

\* C11: a pointer move with the button not held sets the hover index to the
\* first non-background index of the pixels read back for the pointer, in the
\* order of the readback, and to none when all of them are background.
HoverIsFirstNonBackground ==
  [][(MouseMoveAnywhere /\ ~mouseIsDown) =>
       nearestPoint' = FirstNonBackground(pickingTexture,
         HoverRegion(pointerAt'[1], pointerAt'[2], devicePixelRatio))]_vars

\* ------------------------------------------------- active visualizers
\* A visualizer object: its id and which object with that id it is.
VisualizerObjects ==
  [id : {"SPRITES", "POLYLINES"}, instance : {1, 2}]

\* The lists of distinct objects setActiveVisualizers is handed.
VisualizerObjectLists ==
  {list \in UNION {[1..n -> VisualizerObjects] : n \in 0..2} :
     \A j \in DOMAIN list : \A k \in DOMAIN list : list[j] = list[k] => j = k}

NoObject == [id |-> "", instance |-> 0]

\* One call of the trace of setActiveVisualizers: the call itself with its
\* list, or a call it makes on a visualizer.
ProtocolCall(op, object, width, height, positions, list) ==
  [op |-> op, object |-> object, width |-> width, height |-> height,
   positions |-> positions, list |-> list]

HasId(objects, id) == \E k \in DOMAIN objects : objects[k].id = id

\* Map.set(visualizer.id, visualizer): a present key keeps its place.
MapSet(map, object) ==
  IF HasId(map, object.id)
    THEN [k \in DOMAIN map |->
            IF map[k].id = object.id THEN object ELSE map[k]]
    ELSE Append(map, object)

\* The second loop of setActiveVisualizers: the map after it.
RECURSIVE MapSetAll(_, _)
MapSetAll(map, list) ==
  IF list = <<>> THEN map
  ELSE MapSetAll(MapSet(map, Head(list)), Tail(list))

\* A first loop that removes the visualizers without disposing them.
DisposedByNone(map, list) == <<>>

\* The first loop of setActiveVisualizers: the visualizers it disposes.
DisposedBy(map, list) ==
  LET Unwanted(object) == ~HasId(list, object.id)
  IN SelectSeq(map, Unwanted)

\* The calls of setActiveVisualizers(list), in order.
SetActiveVisualizersCalls(map, list, positions) ==
  LET disposed == DisposedBy(map, list)
      Attach(k) ==
        CASE k % 3 = 1 -> ProtocolCall("setScene", list[(k + 2) \div 3],
                            0, 0, <<>>, <<>>)
          [] k % 3 = 2 -> ProtocolCall("onResize", list[(k + 2) \div 3],
                            CanvasSize, CanvasSize, <<>>, <<>>)
          [] OTHER -> ProtocolCall("onPointPositionsChanged",
                            list[(k + 2) \div 3], 0, 0, positions, <<>>)
  IN <<ProtocolCall("setActiveVisualizers", NoObject, 0, 0, <<>>, list)>>
     \o [k \in 1..Len(disposed) |->
           ProtocolCall("dispose", disposed[k], 0, 0, <<>>, <<>>)]
     \o [k \in 1..(3 * Len(list)) |-> Attach(k)]

Ids(objects) == [k \in DOMAIN objects |-> objects[k].id]

InitVisualizers ==
  /\ ConstructedWith(1)
  /\ selectEnabled = TRUE

\* ScatterPlot.setActiveVisualizers with the objects and the calls it makes.
SetActiveVisualizerObjects ==
  \E list \in VisualizerObjectLists :
    /\ protocolCalls' = SetActiveVisualizersCalls(visualizerObjects, list,
                          worldSpacePointPositions)
    /\ visualizerObjects' =
         MapSetAll(SelectSeq(visualizerObjects,
                     LAMBDA object : HasId(list, object.id)), list)
    /\ visualizers' = Ids(visualizerObjects')
    /\ notes' = <<>>
    /\ threw' = FALSE
    /\ gesture' = "none"
    /\ NoRender
    /\ UNCHANGED <<interactionMode, selecting, nearestPoint, lastHovered,
                   mouseIsDown, isDragSequence, controlsEnabled,
                   selIsMouseDown, startCoordinates, lastBoundingBox,
                   worldSpacePointPositions, backgroundColor,
                   devicePixelRatio, selectEnabled, pickId, pickColor,
                   pickDecoded, pointerAt, shiftHeld, hoverDelivered,
                   visualizerState, cameraVars, labelVars, facadeVars,
                 selectorVars>>

\* ScatterPlot.disposeAllVisualizers with the calls it makes.
DisposeAllVisualizerObjects ==
  /\ protocolCalls' =
       <<ProtocolCall("disposeAllVisualizers", NoObject, 0, 0, <<>>, <<>>)>>
       \o [k \in DOMAIN visualizerObjects |->
             ProtocolCall("dispose", visualizerObjects[k], 0, 0, <<>>, <<>>)]
  /\ visualizerObjects' = <<>>
  /\ visualizers' = <<>>
  /\ notes' = <<>>
  /\ threw' = FALSE
  /\ gesture' = "none"
  /\ NoRender
  /\ UNCHANGED <<interactionMode, selecting, nearestPoint, lastHovered,
                 mouseIsDown, isDragSequence, controlsEnabled,
                 selIsMouseDown, startCoordinates, lastBoundingBox,
                 worldSpacePointPositions, backgroundColor,
                 devicePixelRatio, selectEnabled, pickId, pickColor,
                 pickDecoded, pointerAt, shiftHeld, hoverDelivered,
                 visualizerState, cameraVars, labelVars, facadeVars,
                 selectorVars>>

NextVisualizersModel ==
  \/ SetActiveVisualizerObjects
  \/ DisposeAllVisualizerObjects
  \/ SetPointPositions

SpecVisualizers == InitVisualizers /\ [][NextVisualizersModel]_vars

CalledOn(calls, op, object) ==
  {k \in DOMAIN calls : calls[k].op = op /\ calls[k].object = object}

\* C12: after setActiveVisualizers(L) the collection holds exactly the ids of
\* L, once each; every visualizer that was active and whose id is not in L was
\* disposed and is no more in the collection; every visualizer of L received
\* setScene, onResize with the current size and onPointPositionsChanged with
\* the current positions.
ActiveVisualizerDiff ==
  [][SetActiveVisualizerObjects =>
       LET calls == protocolCalls'
           list == calls[1].list
       IN /\ calls[1].op = "setActiveVisualizers"
          /\ {visualizerObjects'[k].id : k \in DOMAIN visualizerObjects'}
               = {list[k].id : k \in DOMAIN list}
          /\ \A j \in DOMAIN visualizerObjects' :
               \A k \in DOMAIN visualizerObjects' :
                 visualizerObjects'[j].id = visualizerObjects'[k].id => j = k
          /\ \A k \in DOMAIN visualizerObjects :
               ~HasId(list, visualizerObjects[k].id) =>
                 /\ CalledOn(calls, "dispose", visualizerObjects[k]) # {}
                 /\ \A j \in DOMAIN visualizerObjects' :
                      visualizerObjects'[j] # visualizerObjects[k]
          /\ \A k \in DOMAIN list :
               /\ CalledOn(calls, "setScene", list[k]) # {}
               /\ \E j \in CalledOn(calls, "onResize", list[k]) :
                    calls[j].width = CanvasSize /\ calls[j].height = CanvasSize
               /\ \E j \in CalledOn(calls, "onPointPositionsChanged", list[k]) :
                    calls[j].positions = worldSpacePointPositions]_vars

\* A visualizer was disposed and another one attached while points are set.
ActiveVisualizerDiffWitness ==
  /\ Len(protocolCalls) = 5
  /\ protocolCalls[2].op = "dispose"
  /\ protocolCalls[5].op = "onPointPositionsChanged"
  /\ protocolCalls[5].positions # <<>>
  /\ Len(visualizerObjects) = 1
  /\ visualizerObjects[1] = protocolCalls[5].object

\* ------------------------------------------------ visualizer life cycle
\* The fields of one visualizer that its dispose() reads or writes. A field
\* that holds an object is TRUE when it is not null or undefined; error tells
\* whether the last call on the visualizer ended by a TypeError.
\* worldSpacePointPositions is the length of the array, or NULL.

\* new ScatterPlotVisualizerSprites(styles, spriteSheetParams)
NewSprites(hasSpriteSheet) ==
  [kind |-> "SPRITES", scene |-> FALSE, points |-> FALSE,
   worldSpacePointPositions |-> 0, spriteSheetParams |-> hasSpriteSheet,
   texture |-> hasSpriteSheet, spriteSheetImage |-> hasSpriteSheet,
   renderMaterial |-> TRUE, pickingMaterial |-> TRUE, error |-> FALSE]

\* ScatterPlotVisualizerSprites.disposeGeometry
SpritesDisposeGeometry(v) ==
  IF v.points
    THEN IF v.scene
      THEN [v EXCEPT !.points = FALSE, !.worldSpacePointPositions = NULL]
      ELSE [v EXCEPT !.error = TRUE]
    ELSE v

\* ScatterPlotVisualizerSprites.disposeSpriteSheet
SpritesDisposeSpriteSheet(v) ==
  [v EXCEPT !.texture = FALSE, !.renderMaterial = FALSE,
            !.pickingMaterial = FALSE, !.spriteSheetImage = FALSE]

\* ScatterPlotVisualizerSprites.dispose
SpritesDispose(v) ==
  LET g == SpritesDisposeGeometry([v EXCEPT !.error = FALSE])
  IN IF g.error THEN g ELSE SpritesDisposeSpriteSheet(g)

\* ScatterPlotVisualizerSprites.onPointPositionsChanged with n coordinates
SpritesOnPointPositionsChanged(v, n) ==
  LET v0 == [v EXCEPT !.error = FALSE]
      g == IF v0.points
             THEN IF v0.worldSpacePointPositions = NULL
               THEN [v0 EXCEPT !.error = TRUE]
               ELSE IF v0.worldSpacePointPositions # n
                 THEN SpritesDisposeGeometry(v0) ELSE v0
             ELSE v0
      w == [g EXCEPT !.worldSpacePointPositions = n]
      created == IF w.points THEN w
                 ELSE [w EXCEPT !.points = TRUE, !.error = ~w.scene]
  IN IF g.error THEN g
     ELSE IF created.error THEN created
     ELSE [created EXCEPT !.texture = created.spriteSheetParams,
                          !.spriteSheetImage = created.spriteSheetParams,
                          !.renderMaterial = TRUE, !.pickingMaterial = TRUE]

\* new ScatterPlotVisualizerPolylines(); setSequences(sequences)
NewPolylines(sequenceCount) ==
  [kind |-> "POLYLINES", scene |-> FALSE, sequences |-> sequenceCount,
   polylines |-> 0, polylinePositionBuffer |-> FALSE,
   polylineColorBuffer |-> FALSE, error |-> FALSE]

\* ScatterPlotVisualizerPolylines.dispose
PolylinesDispose(v) ==
  IF v.polylines > 0 /\ ~v.scene
    THEN [v EXCEPT !.error = TRUE]
    ELSE [v EXCEPT !.polylines = 0, !.polylinePositionBuffer = FALSE,
                   !.polylineColorBuffer = FALSE, !.error = FALSE]

\* ScatterPlotVisualizerPolylines.createPolylines: the loop that adds a
\* polyline pushes it on the list before it adds it to the scene.
PolylinesCreatePolylines(v) ==
  IF v.scene THEN [v EXCEPT !.polylines = v.sequences]
  ELSE IF v.polylines > 0 THEN [v EXCEPT !.error = TRUE]
  ELSE [v EXCEPT !.polylines = 1, !.error = TRUE]

\* ScatterPlotVisualizerPolylines.onPointPositionsChanged, positions not null
PolylinesOnPointPositionsChanged(v) ==
  IF v.sequences = 0 THEN [v EXCEPT !.error = FALSE]
  ELSE PolylinesCreatePolylines(
         [v EXCEPT !.polylinePositionBuffer = TRUE,
                   !.polylineColorBuffer = TRUE, !.error = FALSE])

\* ScatterPlotVisualizerPolylines.onRender
PolylinesOnRender(v) ==
  [v EXCEPT !.error = v.polylines > 0 /\ ~v.polylineColorBuffer]

\* ScatterPlotVisualizerSprites.onPickingRender and onRender
SpritesOnRender(v) ==
  [v EXCEPT !.error = ~(v.pickingMaterial /\ v.points /\ v.scene
                          /\ v.renderMaterial)]

\* new ScatterPlotVisualizer3DLabels(styles)
New3DLabels ==
  [kind |-> "3D_LABELS", scene |-> FALSE, geometry |-> FALSE,
   labelsMesh |-> FALSE, glyphTexture |-> "undefined", error |-> FALSE]

\* ScatterPlotVisualizer3DLabels.dispose
Labels3DDispose(v) ==
  [v EXCEPT !.labelsMesh = FALSE, !.geometry = FALSE,
            !.glyphTexture = IF v.glyphTexture = "texture" THEN "disposed"
                             ELSE v.glyphTexture,
            !.error = FALSE]

\* ScatterPlotVisualizer3DLabels.onPickingRender / onRender
Labels3DOnRender(v) ==
  IF v.geometry THEN [v EXCEPT !.error = FALSE]
  ELSE [v EXCEPT !.glyphTexture = "texture", !.geometry = TRUE,
                 !.labelsMesh = TRUE, !.error = ~v.scene]

\* new ScatterPlotVisualizerCanvasLabels(container, styles)
NewCanvasLabels ==
  [kind |-> "CANVAS_LABELS", canvas |-> TRUE, gc |-> TRUE,
   labelsDrawn |-> FALSE, error |-> FALSE]

\* ScatterPlotVisualizerCanvasLabels.dispose
CanvasLabelsDispose(v) == [v EXCEPT !.labelsDrawn = FALSE, !.error = FALSE]

\* ScatterPlotVisualizerCanvasLabels.onRender with labels to draw
CanvasLabelsOnRender(v) == [v EXCEPT !.labelsDrawn = TRUE, !.error = FALSE]

\* visualizer.dispose()
Dispose(v) ==
  CASE v.kind = "SPRITES" -> SpritesDispose(v)
    [] v.kind = "POLYLINES" -> PolylinesDispose(v)
    [] v.kind = "3D_LABELS" -> Labels3DDispose(v)
    [] v.kind = "CANVAS_LABELS" -> CanvasLabelsDispose(v)
    [] OTHER -> v

\* visualizer.setScene(scene)
SetScene(v) ==
  CASE v.kind \in {"SPRITES", "POLYLINES", "3D_LABELS"} ->
         [v EXCEPT !.scene = TRUE, !.error = FALSE]
    [] OTHER -> [v EXCEPT !.error = FALSE]

\* visualizer.onPointPositionsChanged(positions), n coordinates
OnPointPositionsChanged(v, n) ==
  CASE v.kind = "SPRITES" -> SpritesOnPointPositionsChanged(v, n)
    [] v.kind = "POLYLINES" -> PolylinesOnPointPositionsChanged(v)
    [] v.kind = "3D_LABELS" -> Labels3DDispose(v)
    [] v.kind = "CANVAS_LABELS" -> CanvasLabelsDispose(v)
    [] OTHER -> v

\* visualizer.onPickingRender(rc); visualizer.onRender(rc)
OnRenderPasses(v) ==
  CASE v.kind = "3D_LABELS" -> Labels3DOnRender(v)
    [] v.kind = "CANVAS_LABELS" -> CanvasLabelsOnRender(v)
    [] v.kind = "SPRITES" -> SpritesOnRender(v)
    [] v.kind = "POLYLINES" -> PolylinesOnRender(v)
    [] OTHER -> v

\* ------------------------------------------------ dispose, per visualizer
SequenceCounts == {0, 1}
PositionLengths == {3 * n : n \in 0..MaxPoints}

NewVisualizers ==
  {NewSprites(b) : b \in BOOLEAN} \cup {NewPolylines(n) : n \in SequenceCounts}
    \cup {New3DLabels, NewCanvasLabels}

\* One visualizer is constructed.
NewVisualizer ==
  /\ visualizerState.kind = "none"
  /\ visualizerState' \in NewVisualizers
  /\ UNCHANGED <<plotVars, visualizerObjects, protocolCalls, cameraVars,
                 labelVars, facadeVars,
                 selectorVars>>

CallSetScene ==
  /\ visualizerState.kind # "none"
  /\ visualizerState' = SetScene(visualizerState)
  /\ UNCHANGED <<plotVars, visualizerObjects, protocolCalls, cameraVars,
                 labelVars, facadeVars,
                 selectorVars>>

CallOnPointPositionsChanged ==
  /\ visualizerState.kind # "none"
  /\ \E n \in PositionLengths :
       visualizerState' = OnPointPositionsChanged(visualizerState, n)
  /\ UNCHANGED <<plotVars, visualizerObjects, protocolCalls, cameraVars,
                 labelVars, facadeVars,
                 selectorVars>>

CallOnRender ==
  /\ visualizerState.kind # "none"
  /\ visualizerState' = OnRenderPasses(visualizerState)
  /\ UNCHANGED <<plotVars, visualizerObjects, protocolCalls, cameraVars,
                 labelVars, facadeVars,
                 selectorVars>>

CallDispose ==
  /\ visualizerState.kind # "none"
  /\ visualizerState' = Dispose(visualizerState)
  /\ UNCHANGED <<plotVars, visualizerObjects, protocolCalls, cameraVars,
                 labelVars, facadeVars,
                 selectorVars>>

NextDispose ==
  \/ NewVisualizer
  \/ CallSetScene
  \/ CallOnPointPositionsChanged
  \/ CallOnRender
  \/ CallDispose

SpecDispose == Init /\ [][NextDispose]_vars

\* C13: in every state the protocol calls reach, dispose() raises no error,
\* and a second dispose() right after it raises none and changes nothing.
DisposeIdempotent ==
  visualizerState.kind # "none" =>
    /\ ~Dispose(visualizerState).error
    /\ Dispose(Dispose(visualizerState)) = Dispose(visualizerState)

\* ------------------------------------------------ camera and orbit actions
MaxFrames == 3
DimensionInputs == 1..4
DatasetDimensions == {2, 3}
DatasetLayouts == {SpreadLayout(n, 1) : n \in 1..MaxPoints}
CameraParamInputs ==
  [zoom : {NULL, 2}, position : {<<>>, <<0, 0, 100>>},
   target : {<<>>, <<10, 0, 0>>}]
CameraDefInputs ==
  {makeDefaultCameraDef(d, NoCameraParams) : d \in {2, 3}}
    \cup {makeDefaultCameraDef(3, [NoCameraParams EXCEPT !.zoom = 2])}
PositionAndTargetInputs == {<<<<0, 0, 100>>, <<10, 0, 0>>>>}

\* What a camera handler leaves alone in the plot and in the visualizers.
cameraFrame ==
  <<selectEnabled, interactionMode, selecting, nearestPoint, lastHovered,
    mouseIsDown, isDragSequence, selIsMouseDown, startCoordinates,
    lastBoundingBox, worldSpacePointPositions, visualizers, backgroundColor,
    devicePixelRatio, threw, pointerAt, gesture, shiftHeld, hoverDelivered,
    pickId, pickColor, pickDecoded, visualizerObjects, protocolCalls,
    visualizerState, cameraParams, labelVars, facadeVars,
                 selectorVars>>

Call(op, arg) == [op |-> op, arg |-> arg]

Logged(call) ==
  IF Len(lastCalls) < 2 THEN Append(lastCalls, call)
  ELSE <<lastCalls[2], call>>

\* The controls, the animation handle and the browser's frame callbacks.
Orbit ==
  [controls |-> orbitCameraControls, id |-> orbitAnimationId,
   frames |-> animationFrames]

SetOrbit(o) ==
  /\ orbitCameraControls' = o.controls
  /\ orbitAnimationId' = o.id
  /\ animationFrames' = o.frames

\* ScatterPlot.stopOrbitAnimation
stopOrbitAnimation(o) ==
  [controls |-> [o.controls EXCEPT !.autoRotate = FALSE],
   id |-> NULL,
   frames |-> IF o.id # NULL
                THEN [o.frames EXCEPT !.pending = Cancelled(@, o.id)]
                ELSE o.frames]

\* ScatterPlot.updateOrbitAnimation: controls.update() and the next request.
updateOrbitAnimation(o) ==
  [controls |-> o.controls,
   id |-> o.frames.next,
   frames |-> [pending |-> o.frames.pending \cup {o.frames.next},
               next |-> o.frames.next + 1]]

\* A start that requests a frame without cancelling the one it has.
startOrbitAnimationKeepsRequest(dims, o) ==
  IF dims # 3 THEN o
  ELSE updateOrbitAnimation([o EXCEPT !.controls.autoRotate = TRUE])

\* ScatterPlot.startOrbitAnimation
startOrbitAnimation(dims, o) ==
  IF dims # 3 THEN o
  ELSE LET stopped == IF o.id # NULL THEN stopOrbitAnimation(o) ELSE o
       IN updateOrbitAnimation(
            [stopped EXCEPT !.controls.autoRotate = TRUE])

\* ScatterPlot.recreateCamera, with this.dimensions = dims
recreateCamera(cameraDef, dims) ==
  LET made == [Orbit EXCEPT
                 !.controls = makeOrbitControls(~cameraDef.orthographic)]
      after == IF orbitAnimationOnNextCameraCreation
                 THEN startOrbitAnimation(dims, made) ELSE made
  IN /\ SetOrbit(after)
     /\ camera' = CameraOf(cameraDef, made.controls)
     /\ controlsEnabled' = TRUE

\* ScatterPlot.makeCamera() as setDimensions calls it: without cameraParams.
makeCamera(dims) ==
  recreateCamera(makeDefaultCameraDef(dims, NoCameraParams), dims)

KeepCamera ==
  UNCHANGED <<camera, orbitCameraControls, orbitAnimationId, animationFrames,
              controlsEnabled>>

\* ScatterPlot.setDimensions(d), the part after the validity test
setDimensions(d) ==
  /\ dimensions' = d
  /\ IF dimensions # d THEN makeCamera(d) ELSE KeepCamera

\* scatterPlot.setDimensions(d)
SetDimensions ==
  \E d \in DimensionInputs :
    /\ lastCalls' = Logged(Call("setDimensions", d))
    /\ IF ValidDimensions(d)
         THEN setDimensions(d) /\ raised' = "none"
         ELSE /\ raised' = "RangeError"
              /\ UNCHANGED dimensions
              /\ KeepCamera
    /\ notes' = <<>>
    /\ NoRender
    /\ UNCHANGED <<dataset, orbitCancelled, cameraFrame>>

\* ScatterGL.setDimensions(nDimensions)
FacadeSetDimensions ==
  \E d \in DimensionInputs :
    LET outsideRange == d < 2 \/ d > 3
        moreThanDataset == dataset # NULL /\ d > dataset
    IN /\ lastCalls' = Logged(Call("ScatterGL.setDimensions", d))
       /\ IF outsideRange \/ moreThanDataset
            THEN /\ raised' = "RangeError"
                 /\ UNCHANGED dimensions
                 /\ KeepCamera
                 /\ NoRender
            ELSE /\ raised' = "none"
                 /\ setDimensions(d)
                 /\ IF dataset # NULL THEN DoRender ELSE NoRender
       /\ notes' = <<>>
       /\ UNCHANGED <<dataset, orbitCancelled, cameraFrame>>

\* new Uint32Array(n) and the other typed arrays: a write past the end is
\* dropped, the array keeps its length.
TypedArrayWrite(array, index, value) ==
  IF index < Len(array) THEN [array EXCEPT ![index + 1] = value] ELSE array

\* ScatterGL.generateVisibleLabelRenderParams: pointIndices is the typed array
\* visibleLabels, labelStrings the plain array the texts are pushed to (the
\* text of a point is written as the point's index).
generateVisibleLabelRenderParams(hover, selected) ==
  LET n == IF hover # NULL THEN 1 ELSE 0
      visibleLabels == [k \in 1..n |-> 0]
      hovered ==
        IF hover # NULL
          THEN [visibleLabels |-> TypedArrayWrite(visibleLabels, 0, hover),
                labelStrings |-> <<hover>>, dst |-> 1]
          ELSE [visibleLabels |-> visibleLabels, labelStrings |-> <<>>,
                dst |-> 0]
  IN IF Len(selected) = 1
       THEN [set |-> TRUE,
             pointIndices |->
               TypedArrayWrite(hovered.visibleLabels, hovered.dst, selected[1]),
             labelStrings |-> Append(hovered.labelStrings, selected[1])]
       ELSE [set |-> TRUE, pointIndices |-> hovered.visibleLabels,
             labelStrings |-> hovered.labelStrings]

\* colors[dst++] = c.r; ... c.opacity at dst = p * RGBA_NUM_ELEMENTS: the
\* elements of point p become those of colour c (writes past the end of the
\* typed array are dropped).
PaintPoint(colors, p, c) ==
  [k \in 1..Len(colors) |->
     IF (k - 1) \div RGBA_NUM_ELEMENTS = p THEN c ELSE colors[k]]

\* for (const selectedPointIndex of selectedPointIndices.values()) ...
RECURSIVE PaintPoints(_, _, _)
PaintPoints(colors, selected, c) ==
  IF selected = <<>> THEN colors
  ELSE PaintPoints(PaintPoint(colors, Head(selected), c), Tail(selected), c)

\* The default colouring with the hover point painted before the selection.
generatePointColorArrayHoverFirst(n, hover, selected) ==
  LET c == IF Len(selected) > 0 THEN "colorUnselected" ELSE "colorNoSelection"
      all == [k \in 1..(n * RGBA_NUM_ELEMENTS) |-> c]
      hovered == IF hover # NULL THEN PaintPoint(all, hover, "colorHover")
                 ELSE all
  IN PaintPoints(hovered, selected, "colorSelected")

\* ScatterGL.generatePointColorArray without a point colorer, for a dataset
\* of n points: every element holds the name of the style colour it is a
\* channel of.
generatePointColorArray(n, hover, selected) ==
  LET c == IF Len(selected) > 0 THEN "colorUnselected" ELSE "colorNoSelection"
      all == [k \in 1..(n * RGBA_NUM_ELEMENTS) |-> c]
      withSelected == PaintPoints(all, selected, "colorSelected")
  IN IF hover # NULL THEN PaintPoint(withSelected, hover, "colorHover")
     ELSE withSelected

\* scale[p] = scaleSelected for the selected points
RECURSIVE ScalePoints(_, _, _)
ScalePoints(scale, selected, f) ==
  IF selected = <<>> THEN scale
  ELSE ScalePoints(TypedArrayWrite(scale, Head(selected), f),
                   Tail(selected), f)

\* ScatterGL.generatePointScaleFactorArray for a dataset of n points
generatePointScaleFactorArray(n, hover, selected) ==
  LET all == [k \in 1..n |-> "scaleDefault"]
      withSelected == ScalePoints(all, selected, "scaleSelected")
  IN IF hover # NULL THEN TypedArrayWrite(withSelected, hover, "scaleHover")
     ELSE withSelected

\* ScatterGL.updateScatterPlotAttributes for a dataset of n points.
updateScatterPlotAttributes(n, hover, selected) ==
  /\ pointColors' = Buffer(generatePointColorArray(n, hover, selected))
  /\ pointScaleFactors' =
       Buffer(generatePointScaleFactorArray(n, hover, selected))
  /\ labels' = generateVisibleLabelRenderParams(hover, selected)

KeepAttributes == UNCHANGED <<pointColors, pointScaleFactors, labels>>

\* What updateDataset leaves alone.
datasetFrame ==
  <<selectEnabled, interactionMode, selecting, nearestPoint, lastHovered,
    mouseIsDown, isDragSequence, selIsMouseDown, startCoordinates,
    lastBoundingBox, visualizers, backgroundColor, devicePixelRatio, threw,
    pointerAt, gesture, shiftHeld, hoverDelivered, pickId, pickColor,
    pickDecoded, visualizerObjects, protocolCalls, visualizerState,
    cameraParams, labelVars, hoverPointIndex, selectedPointIndices,
    sequences, polylineAttributes, selectorVars>>

\* ScatterGL.updateDataset(dataset), for a dataset of d dimensions whose
\* points land on one of the layouts.
UpdateDataset ==
  \E d \in DatasetDimensions, positions \in DatasetLayouts :
    /\ lastCalls' = Logged(Call("updateDataset", d))
    /\ facadeCall' = PointNote("updateDataset", NULL)
    /\ userCalls' = <<>>
    /\ dataset' = d
    /\ setDimensions(d)
    /\ updateScatterPlotAttributes(Len(positions), hoverPointIndex,
                                   selectedPointIndices)
    /\ worldSpacePointPositions' = positions
    /\ raised' = "none"
    /\ DoRenderOf(positions)
    /\ notes' = <<>>
    /\ UNCHANGED <<orbitCancelled, datasetFrame>>

\* ScatterPlot.resetZoom
ResetZoom ==
  /\ lastCalls' = Logged(Call("resetZoom", NULL))
  /\ recreateCamera(makeDefaultCameraDef(dimensions, NoCameraParams),
                    dimensions)
  /\ raised' = "none"
  /\ DoRender
  /\ notes' = <<>>
  /\ UNCHANGED <<dimensions, dataset, orbitCancelled, cameraFrame>>

\* ScatterPlot.recreateCamera(cameraDef), called from outside
RecreateCamera ==
  \E cameraDef \in CameraDefInputs :
    /\ lastCalls' = Logged(Call("recreateCamera", NULL))
    /\ recreateCamera(cameraDef, dimensions)
    /\ raised' = "none"
    /\ NoRender
    /\ notes' = <<>>
    /\ UNCHANGED <<dimensions, dataset, orbitCancelled, cameraFrame>>

\* ScatterPlot.resize(): the container keeps its size.
Resize ==
  /\ lastCalls' = Logged(Call("resize", NULL))
  /\ camera' = [camera EXCEPT !.aspect = <<CanvasSize, CanvasSize>>]
  /\ raised' = "none"
  /\ DoRender
  /\ notes' = <<>>
  /\ UNCHANGED <<orbitCameraControls, orbitAnimationId, animationFrames,
                 controlsEnabled, dimensions, dataset, orbitCancelled,
                 cameraFrame>>

\* ScatterPlot.startOrbitAnimation()
StartOrbitAnimation ==
  /\ animationFrames.next <= MaxFrames
  /\ lastCalls' = Logged(Call("startOrbitAnimation", NULL))
  /\ SetOrbit(startOrbitAnimation(dimensions, Orbit))
  /\ orbitCancelled' = FALSE
  /\ raised' = "none"
  /\ NoRender
  /\ notes' = <<>>
  /\ UNCHANGED <<camera, controlsEnabled, dimensions, dataset, cameraFrame>>

\* ScatterPlot.stopOrbitAnimation()
StopOrbitAnimation ==
  /\ lastCalls' = Logged(Call("stopOrbitAnimation", NULL))
  /\ SetOrbit(stopOrbitAnimation(Orbit))
  /\ orbitCancelled' = TRUE
  /\ raised' = "none"
  /\ NoRender
  /\ notes' = <<>>
  /\ UNCHANGED <<camera, controlsEnabled, dimensions, dataset, cameraFrame>>

\* The 'start' event of the controls: the user begins to drag or to zoom.
ControlsStart ==
  /\ controlsEnabled
  /\ lastCalls' = Logged(Call("start", NULL))
  /\ SetOrbit(stopOrbitAnimation(Orbit))
  /\ orbitCancelled' = TRUE
  /\ raised' = "none"
  /\ NoRender
  /\ notes' = <<[type |-> "cameraMove", point |-> NULL, points |-> <<>>]>>
  /\ UNCHANGED <<camera, controlsEnabled, dimensions, dataset, cameraFrame>>

\* ScatterPlot.setCameraPositionAndTarget(position, target)
SetCameraPositionAndTarget ==
  \E pt \in PositionAndTargetInputs :
    LET stopped == stopOrbitAnimation(Orbit)
    IN /\ lastCalls' = Logged(Call("setCameraPositionAndTarget", NULL))
       /\ SetOrbit([stopped EXCEPT !.controls.target = pt[2]])
       /\ camera' = [camera EXCEPT !.position = pt[1], !.target = pt[2]]
       /\ orbitCancelled' = TRUE
       /\ raised' = "none"
       /\ DoRender
       /\ notes' = <<>>
       /\ UNCHANGED <<controlsEnabled, dimensions, dataset, cameraFrame>>

\* The browser runs one requested animation frame callback: a tick of
\* updateOrbitAnimation. The controls' update() moves the camera, and their
\* 'change' listener renders, when auto-rotate is on.
AnimationFrame ==
  \E f \in animationFrames.pending :
    /\ animationFrames.next <= MaxFrames
    /\ lastCalls' = Logged(Call("tick", f))
    /\ SetOrbit(updateOrbitAnimation(
         [Orbit EXCEPT !.frames.pending = @ \ {f}]))
    /\ IF orbitCameraControls.autoRotate THEN DoRender ELSE NoRender
    /\ raised' = "none"
    /\ notes' = <<>>
    /\ UNCHANGED <<camera, controlsEnabled, dimensions, dataset,
                   orbitCancelled, cameraFrame>>

InitCamera ==
  /\ PlotConstructedWith(1)
  /\ selectEnabled = TRUE
  /\ \E params \in CameraParamInputs : CameraConstructedWith(params)
  /\ NoLabels
  /\ FacadeConstructed
  /\ SelectorConstructed

NextDimensions ==
  \/ SetDimensions
  \/ FacadeSetDimensions
  \/ UpdateDataset
  \/ ResetZoom
  \/ Resize

SpecDimensions == InitCamera /\ [][NextDimensions]_vars

NextOrbit ==
  \/ SetDimensions
  \/ ResetZoom
  \/ RecreateCamera
  \/ StartOrbitAnimation
  \/ StopOrbitAnimation
  \/ ControlsStart
  \/ SetCameraPositionAndTarget
  \/ AnimationFrame

SpecOrbit == InitCamera /\ [][NextOrbit]_vars

\* C14: after any sequence of setDimensions, resetZoom and resize calls the
\* camera is a perspective camera with rotation permitted exactly when the
\* dimension is 3, an orthographic one with rotation disallowed when it is 2.
DimensionSwitchInvariant ==
  /\ dimensions \in {2, 3}
  /\ camera.orthographic <=> dimensions = 2
  /\ orbitCameraControls.enableRotate <=> dimensions = 3

\* setDimensions(2) then setDimensions(3) was called: perspective, rotating.
DimensionSwitchInvariantWitness ==
  /\ lastCalls = <<Call("setDimensions", 2), Call("setDimensions", 3)>>
  /\ dimensions = 3
  /\ ~camera.orthographic
  /\ orbitCameraControls.enableRotate

LastCall == lastCalls[Len(lastCalls)]

\* C15: setDimensions with a value other than 2 or 3, and ScatterGL's
\* setDimensions also with a value above the dataset's dimensions, ends by a
\* RangeError and leaves the dimension, the camera and the controls as they were.
SetDimensionsFailsFast ==
  [][LET call == LastCall'
         invalid == call.arg # 2 /\ call.arg # 3
     IN ((call.op = "setDimensions" /\ invalid)
           \/ (call.op = "ScatterGL.setDimensions"
                 /\ (invalid \/ (dataset # NULL /\ call.arg > dataset))))
        => /\ raised' = "RangeError"
           /\ UNCHANGED <<dimensions, camera, orbitCameraControls>>]_vars

\* ScatterGL.setDimensions(3) failed on a 2D dataset shown by a 2D camera.
SetDimensionsFailsFastWitness ==
  /\ lastCalls # <<>>
  /\ LastCall = Call("ScatterGL.setDimensions", 3)
  /\ raised = "RangeError"
  /\ dataset = 2
  /\ dimensions = 2
  /\ camera.orthographic

\* C16: the camera built by a switch between 2 and 3 dimensions has the zoom,
\* the position and the target that were supplied to the constructor.
CameraParamsPreserved ==
  [][dimensions' # dimensions =>
       /\ cameraParams.zoom # NULL => camera'.zoom = cameraParams.zoom
       /\ cameraParams.position # <<>> =>
            camera'.position = cameraParams.position
       /\ cameraParams.target # <<>> => camera'.target = cameraParams.target
    ]_vars

\* C17: after stopOrbitAnimation, the controls' start event or
\* setCameraPositionAndTarget, no orbit animation tick runs until the next
\* startOrbitAnimation.
OrbitCancellation == [][orbitCancelled => ~AnimationFrame]_vars

\* The orbit was started, a frame was requested, and the orbit was stopped.
OrbitCancellationWitness ==
  /\ lastCalls = <<Call("startOrbitAnimation", NULL),
                   Call("stopOrbitAnimation", NULL)>>
  /\ orbitCancelled
  /\ animationFrames.next > 1
  /\ animationFrames.pending = {}

\* C18: when the camera of a 3D scene is recreated while the controls
\* auto-rotate, the new controls auto-rotate too.
OrbitRestartedAfterRecreation ==
  [][((SetDimensions \/ ResetZoom \/ RecreateCamera)
        /\ orbitCameraControls.autoRotate
        /\ dimensions' = 3 /\ ~camera'.orthographic)
       => orbitCameraControls'.autoRotate]_vars

\* ScatterPlot.orbitIsAnimating, which ScatterGL.isOrbiting returns
orbitIsAnimating == orbitAnimationId # NULL

\* C19: isOrbiting() is true exactly when the current controls auto-rotate and
\* an animation tick is scheduled, and it is false in a 2D scene.
IsOrbitingExact ==
  /\ orbitIsAnimating <=>
       (orbitCameraControls.autoRotate /\ animationFrames.pending # {})
  /\ dimensions = 2 => ~orbitIsAnimating

\* ------------------------------------------------------- collision grid
\* The canvas of the labels in device pixels, and the grid makeLabels builds
\* over it: new CollisionGrid(bb, pixw / 25, pixh / 50).
MaxLabels == 3
LabelCanvasWidth == 50
LabelCanvasHeight == 50
GridColumns == 25
GridRows == 50
CellWidth == LabelCanvasWidth \div GridColumns
CellHeight == LabelCanvasHeight \div GridRows
LabelMargin == 2
XShift == 4
LabelHeight == 10

BoundingBox(loX, hiX, loY, hiY) ==
  [loX |-> loX, hiX |-> hiX, loY |-> loY, hiY |-> hiY]

\* Rectangle intersection of two boxes.
boundsIntersect(a, b) ==
  ~(a.loX > b.hiX \/ a.hiX < b.loX \/ a.loY > b.hiY \/ a.hiY < b.loY)

\* Only the cell of the low corner of a box.
CellsOfLowCorner(box) ==
  {<<box.loX \div CellWidth, box.loY \div CellHeight>>}

\* The cells the rectangle of a box overlaps.
CellsOf(box) ==
  (Max(0, box.loX \div CellWidth)
     ..Min(GridColumns - 1, box.hiX \div CellWidth))
  \X (Max(0, box.loY \div CellHeight)
        ..Min(GridRows - 1, box.hiY \div CellHeight))

\* The boxes registered in the cells a box overlaps.
RegisteredIn(g, cells) == {r[2] : r \in {q \in g : q[1] \in cells}}

\* An insert that registers the box in test mode too.
insertRegisteringTests(g, box, testOnly) ==
  IF \E other \in RegisteredIn(g, CellsOf(box)) : boundsIntersect(box, other)
    THEN [ok |-> FALSE, grid |-> g]
    ELSE [ok |-> TRUE, grid |-> g \cup {<<c, box>> : c \in CellsOf(box)}]

\* CollisionGrid.insert(box, testOnly): the result and the grid after it.
insert(g, box, testOnly) ==
  LET cells == CellsOf(box)
      conflict == \E other \in RegisteredIn(g, cells) :
                    boundsIntersect(box, other)
  IN IF conflict THEN [ok |-> FALSE, grid |-> g]
     ELSE IF testOnly THEN [ok |-> TRUE, grid |-> g]
     ELSE [ok |-> TRUE, grid |-> g \cup {<<c, box>> : c \in cells}]

\* A label drawn as soon as its estimated box passes the test.
LabelDrawnOnTest(testOk, commitOk) == testOk

\* makeLabels: the label is drawn when the test insert of the estimated box
\* and the committing insert of the measured box both succeed.
LabelDrawn(testOk, commitOk) == testOk /\ commitOk

\* Screen positions of labelled points and measured text widths.
LabelSites == {<<4, 20>>, <<8, 24>>, <<30, 20>>}
TextWidths == {3, 20}
BoxInputs ==
  {BoundingBox(2, 9, 10, 20), BoundingBox(9, 20, 20, 30),
   BoundingBox(30, 40, 5, 15)}

\* The box makeLabels tests first: the text is assumed one pixel wide.
EstimatedBox(x, y) ==
  BoundingBox(x + XShift - LabelMargin, x + XShift + 1 + LabelMargin,
              y - LabelHeight \div 2 - LabelMargin,
              y + LabelHeight \div 2 + LabelMargin)

\* textBoundingBox.hiX += measureText(text).width - 1
MeasuredBox(box, width) == [box EXCEPT !.hiX = @ + width - 1]

InsertCall(box, testOnly, ok) ==
  [called |-> TRUE, box |-> box, testOnly |-> testOnly, ok |-> ok]

labelFrame == <<plotVars, visualizerObjects, protocolCalls, visualizerState,
                cameraVars, facadeVars, selectorVars>>

\* onRender: removeAllLabels() and makeLabels() up to its loop; the grid of
\* the frame is new.
BeginFrame ==
  /\ grid' = {}
  /\ committedBoxes' = <<>>
  /\ labelsDrawn' = <<>>
  /\ insertCalls' = 0
  /\ lastInsert' = [called |-> FALSE]
  /\ UNCHANGED labelFrame

\* One iteration of the loop of makeLabels.
MakeLabel ==
  \E site \in LabelSites, width \in TextWidths :
    LET estimated == EstimatedBox(site[1], site[2])
        tested == insert(grid, estimated, TRUE)
        measured == MeasuredBox(estimated, width)
        inserted == insert(tested.grid, measured, FALSE)
    IN /\ insertCalls + 2 <= 2 * MaxLabels
       /\ IF tested.ok
            THEN /\ grid' = inserted.grid
                 /\ insertCalls' = insertCalls + 2
                 /\ lastInsert' = InsertCall(measured, FALSE, inserted.ok)
                 /\ committedBoxes' = IF inserted.ok
                                        THEN Append(committedBoxes, measured)
                                        ELSE committedBoxes
            ELSE /\ grid' = tested.grid
                 /\ insertCalls' = insertCalls + 1
                 /\ lastInsert' = InsertCall(estimated, TRUE, FALSE)
                 /\ UNCHANGED committedBoxes
       /\ labelsDrawn' = IF LabelDrawn(tested.ok, tested.ok /\ inserted.ok)
                           THEN Append(labelsDrawn, measured)
                           ELSE labelsDrawn
       /\ UNCHANGED labelFrame

\* grid.insert(box, testOnly) called directly.
Insert ==
  \E box \in BoxInputs, testOnly \in BOOLEAN :
    LET inserted == insert(grid, box, testOnly)
    IN /\ insertCalls + 1 <= 2 * MaxLabels
       /\ grid' = inserted.grid
       /\ insertCalls' = insertCalls + 1
       /\ lastInsert' = InsertCall(box, testOnly, inserted.ok)
       /\ committedBoxes' = IF inserted.ok /\ ~testOnly
                              THEN Append(committedBoxes, box)
                              ELSE committedBoxes
       /\ UNCHANGED labelsDrawn
       /\ UNCHANGED labelFrame

NextLabels == BeginFrame \/ MakeLabel \/ Insert

SpecLabels == Init /\ [][NextLabels]_vars

\* Two boxes have a pixel corner in common: a column and a row of both.
SharePoint(a, b) ==
  /\ \E x \in a.loX..a.hiX : b.loX <= x /\ x <= b.hiX
  /\ \E y \in a.loY..a.hiY : b.loY <= y /\ y <= b.hiY

Disjoint(boxes) ==
  \A i \in 1..Len(boxes) : \A j \in 1..Len(boxes) :
    i < j => ~SharePoint(boxes[i], boxes[j])

\* C20: after any sequence of insert calls no two committed boxes intersect,
\* and no two labels drawn in the frame overlap.
CollisionGridNonOverlap ==
  /\ Disjoint(committedBoxes)
  /\ Disjoint(labelsDrawn)

\* Two labels are drawn after an insert was refused.
CollisionGridNonOverlapWitness ==
  /\ Len(labelsDrawn) = 2
  /\ Len(committedBoxes) >= 2
  /\ insertCalls > 2 * Len(committedBoxes)

\* Every box insert() is called with in the model.
InsertInputs ==
  BoxInputs
    \cup {EstimatedBox(site[1], site[2]) : site \in LabelSites}
    \cup {MeasuredBox(EstimatedBox(site[1], site[2]), width) :
            site \in LabelSites, width \in TextWidths}

Committed(box) == \E k \in 1..Len(committedBoxes) : committedBoxes[k] = box

IsPrefix(a, b) == Len(a) <= Len(b) /\ \A k \in 1..Len(a) : a[k] = b[k]

\* C21: an insert whose box intersects a committed box, the identical box
\* included, returns false and changes no registration, and within a frame
\* no committed box is removed.
ConflictingInsertRefused ==
  [][/\ \A box \in InsertInputs : \A testOnly \in BOOLEAN :
          (\E k \in 1..Len(committedBoxes) :
             SharePoint(box, committedBoxes[k]))
            => insert(grid, box, testOnly) = [ok |-> FALSE, grid |-> grid]
     /\ (lastInsert'.called /\ ~lastInsert'.ok) =>
          (grid' = grid /\ committedBoxes' = committedBoxes)
     /\ lastInsert'.called =>
          (grid \subseteq grid' /\ IsPrefix(committedBoxes, committedBoxes'))
    ]_vars

\* The committing insert of a box identical to a committed one was refused.
ConflictingInsertRefusedWitness ==
  /\ lastInsert.called
  /\ ~lastInsert.testOnly
  /\ ~lastInsert.ok
  /\ Committed(lastInsert.box)

\* C22: insert(box, testOnly = true) never changes the grid, so every insert
\* after a test-only insert returns what it would have returned without it.
TestModePurity ==
  /\ \A box \in InsertInputs :
       LET after == insert(grid, box, TRUE).grid
       IN /\ after = grid
          /\ \A later \in InsertInputs : \A testOnly \in BOOLEAN :
               insert(after, later, testOnly).ok
                 = insert(grid, later, testOnly).ok
  /\ (lastInsert.called /\ lastInsert.testOnly) =>
       \A r \in grid : Committed(r[2])

\* A test-only insert succeeded on a grid that holds a committed box.
TestModePurityWitness ==
  /\ lastInsert.called
  /\ lastInsert.testOnly
  /\ lastInsert.ok
  /\ Len(committedBoxes) >= 1
  /\ ~Committed(lastInsert.box)

\* --------------------------------------------------------------- facade
\* new Set(pointIndices): the indices in the order of their first occurrence.
RECURSIVE NewSet(_)
NewSet(pointIndices) ==
  IF pointIndices = <<>> THEN <<>>
  ELSE LET front == NewSet(SubSeq(pointIndices, 1, Len(pointIndices) - 1))
           last == pointIndices[Len(pointIndices)]
       IN IF \E k \in 1..Len(front) : front[k] = last THEN front
          ELSE Append(front, last)

\* The number of points of the facade's dataset.
DatasetPointCount == Len(worldSpacePointPositions)

\* The indices and index lists the plot or the user can hand to the facade.
PointInputs == 0..(MaxPoints - 1)
SelectionInputs ==
  {<<>>, <<0>>, <<1>>, <<0, 1>>, <<1, 0>>, <<1, 1>>}

\* What the plot hands to its callbacks: ids of points it holds.
PlotPointInputs == {p \in PointInputs : p < DatasetPointCount}
PlotSelectionInputs ==
  {s \in SelectionInputs : \A k \in DOMAIN s : s[k] < DatasetPointCount}

\* ScatterGL.renderScatterPlot
renderScatterPlot == IF dataset # NULL THEN DoRender ELSE NoRender

\* updateScatterPlotAttributes() as the handlers call it: nothing without a
\* dataset.
UpdateAttributes(hover, selected) ==
  IF dataset # NULL
    THEN updateScatterPlotAttributes(DatasetPointCount, hover, selected)
    ELSE KeepAttributes

\* What no call on the facade's hover and selection API changes.
facadeFrame ==
  <<selectEnabled, interactionMode, selecting, nearestPoint, lastHovered,
    mouseIsDown, isDragSequence, controlsEnabled, selIsMouseDown,
    startCoordinates, lastBoundingBox, worldSpacePointPositions, visualizers,
    backgroundColor, devicePixelRatio, threw, pointerAt, gesture, shiftHeld,
    hoverDelivered, pickId, pickColor, pickDecoded, visualizerObjects,
    protocolCalls, visualizerState, cameraVars, labelVars, selectorVars,
    sequences, polylineAttributes>>

\* the guard of select() and onSelect()
SelectPermittedAlways(enabled) == TRUE
SelectPermitted(enabled) == enabled

\* ScatterGL.select(pointIndices) and what it returns to its caller's log
select(pointIndices) ==
  IF ~SelectPermitted(selectEnabled)
    THEN /\ UNCHANGED selectedPointIndices
         /\ KeepAttributes
         /\ NoRender
    ELSE /\ selectedPointIndices' = NewSet(pointIndices)
         /\ UpdateAttributes(hoverPointIndex, selectedPointIndices')
         /\ renderScatterPlot

\* ScatterGL.select(pointIndices), called by the user
Select ==
  \E pointIndices \in SelectionInputs :
    /\ facadeCall' = [type |-> "select", point |-> NULL,
                      points |-> pointIndices]
    /\ userCalls' = <<>>
    /\ select(pointIndices)
    /\ notes' = <<>>
    /\ UNCHANGED <<hoverPointIndex, facadeFrame>>

\* ScatterGL.onSelect, the plot's select callback
OnSelectCallback ==
  \E pointIndices \in PlotSelectionInputs :
    /\ facadeCall' = [type |-> "onSelect", point |-> NULL,
                      points |-> pointIndices]
    /\ userCalls' = IF SelectPermitted(selectEnabled)
                      THEN <<SelectNote(pointIndices)>> ELSE <<>>
    /\ select(pointIndices)
    /\ notes' = <<>>
    /\ UNCHANGED <<hoverPointIndex, facadeFrame>>

\* ScatterGL.onHover, the plot's hover callback
OnHoverCallback ==
  \E pointIndex \in PlotPointInputs \cup {NULL} :
    /\ facadeCall' = PointNote("onHover", pointIndex)
    /\ userCalls' = <<PointNote("hover", pointIndex)>>
    /\ hoverPointIndex' = pointIndex
    /\ UpdateAttributes(pointIndex, selectedPointIndices)
    /\ renderScatterPlot
    /\ notes' = <<>>
    /\ UNCHANGED <<selectedPointIndices, facadeFrame>>

\* ScatterGL.onClick, the plot's click callback
OnClickCallback ==
  \E pointIndex \in PlotPointInputs \cup {NULL} :
    /\ facadeCall' = PointNote("onClick", pointIndex)
    /\ userCalls' = <<PointNote("click", pointIndex)>>
    /\ KeepAttributes
    /\ NoRender
    /\ notes' = <<>>
    /\ UNCHANGED <<hoverPointIndex, selectedPointIndices, facadeFrame>>

\* ScatterGL.setHoverPointIndex(index)
SetHoverPointIndex ==
  \E index \in PointInputs :
    /\ facadeCall' = PointNote("setHoverPointIndex", index)
    /\ userCalls' = <<>>
    /\ hoverPointIndex' = index
    /\ UpdateAttributes(index, selectedPointIndices)
    /\ IF orbitIsAnimating THEN NoRender ELSE renderScatterPlot
    /\ notes' = <<>>
    /\ UNCHANGED <<selectedPointIndices, facadeFrame>>

NextFacade ==
  \/ UpdateDataset
  \/ Select
  \/ OnSelectCallback
  \/ OnHoverCallback
  \/ OnClickCallback
  \/ SetHoverPointIndex
  \/ SetInteractionMode
  \/ KeyDown
  \/ KeyUp

SpecFacade == Init /\ [][NextFacade]_vars

\* The label list the hover point and the selection call for: the hover point,
\* then the selected points in their order.
LabelOrder ==
  (IF hoverPointIndex # NULL THEN <<hoverPointIndex>> ELSE <<>>)
    \o selectedPointIndices

\* C23: the label parameters the plot holds list the hover point first (when
\* there is one), then the selected points in their order, and carry one label
\* text per listed index.
VisibleLabelList ==
  labels.set =>
    /\ labels.pointIndices = LabelOrder
    /\ Len(labels.labelStrings) = Len(labels.pointIndices)

\* ------------------------------------------------- attribute buffers
\* The buffer lengths a caller of the plot can supply.
BufferLengths == 0..(MaxPoints * RGBA_NUM_ELEMENTS)

\* What the attribute setters and render() of the plot leave alone.
attributeFrame ==
  <<selectEnabled, interactionMode, selecting, nearestPoint, lastHovered,
    mouseIsDown, isDragSequence, controlsEnabled, selIsMouseDown,
    startCoordinates, lastBoundingBox, visualizers, backgroundColor,
    devicePixelRatio, threw, pointerAt, gesture, shiftHeld, hoverDelivered,
    pickId, pickColor, pickDecoded, visualizerObjects, protocolCalls,
    visualizerState, cameraParams, dimensions, camera, orbitCameraControls,
    orbitAnimationId, animationFrames, dataset, orbitCancelled, lastCalls,
    labelVars, hoverPointIndex, selectedPointIndices, labels, userCalls,
    sequences, polylineAttributes,
    selectorVars>>

\* ScatterPlot.setPointColors(colors), colors of some length
SetPointColors ==
  \E length \in BufferLengths :
    /\ facadeCall' = PointNote("setPointColors", length)
    /\ pointColors' = Buffer([k \in 1..length |-> "supplied"])
    /\ raised' = "none"
    /\ NoRender
    /\ notes' = <<>>
    /\ UNCHANGED <<pointScaleFactors, worldSpacePointPositions,
                   attributeFrame>>

\* ScatterPlot.setPointScaleFactors(scaleFactors)
SetPointScaleFactors ==
  \E length \in BufferLengths :
    /\ facadeCall' = PointNote("setPointScaleFactors", length)
    /\ pointScaleFactors' = Buffer([k \in 1..length |-> "supplied"])
    /\ raised' = "none"
    /\ NoRender
    /\ notes' = <<>>
    /\ UNCHANGED <<pointColors, worldSpacePointPositions, attributeFrame>>

\* ScatterPlot.setPointPositions(worldSpacePointPositions), logged
SetPlotPointPositions ==
  \E positions \in Layouts(devicePixelRatio) \cup DatasetLayouts :
    /\ facadeCall' = PointNote("setPointPositions", Len(positions))
    /\ worldSpacePointPositions' = positions
    /\ raised' = "none"
    /\ NoRender
    /\ notes' = <<>>
    /\ UNCHANGED <<pointColors, pointScaleFactors, attributeFrame>>

\* ScatterPlot.render(), logged
RenderPlot ==
  /\ facadeCall' = PointNote("render", NULL)
  /\ raised' = "none"
  /\ DoRender
  /\ notes' = <<>>
  /\ UNCHANGED <<pointColors, pointScaleFactors, worldSpacePointPositions,
                 attributeFrame>>

NextAttributes ==
  \/ SetPointColors
  \/ SetPointScaleFactors
  \/ SetPlotPointPositions
  \/ RenderPlot

SpecAttributes == Init /\ [][NextAttributes]_vars

\* A colour buffer matches n points when it holds one colour per point (the
\* plot's documentation counts three elements a colour, its visualizers four).
ColorsMatch(buffer, n) ==
  buffer.set => Len(buffer.values) \in {3 * n, RGBA_NUM_ELEMENTS * n}
ScaleFactorsMatch(buffer, n) == buffer.set => Len(buffer.values) = n
BuffersMatch ==
  /\ ColorsMatch(pointColors, Len(worldSpacePointPositions))
  /\ ScaleFactorsMatch(pointScaleFactors, Len(worldSpacePointPositions))

\* C24: a call that leaves the plot with a colour or scale-factor buffer whose
\* length does not match the point count ends by an error, and no render()
\* runs with such a buffer.
MismatchedBuffersFailFast ==
  /\ facadeCall.type \in {"setPointColors", "setPointScaleFactors",
                          "setPointPositions"} /\ ~BuffersMatch
       => raised # "none"
  /\ facadeCall.type = "render" => BuffersMatch

\* The user's onSelect callback ran in the last call.
UserSelectInvoked ==
  \E k \in 1..Len(userCalls) : userCalls[k].type = "select"

\* C25: with selectEnabled false the facade's selected set stays the empty set
\* of its construction and the user's onSelect callback is not invoked,
\* whatever select() calls, plot callbacks, key events and mode changes occur.
SelectionDisabledIsInert ==
  ~selectEnabled =>
    /\ selectedPointIndices = <<>>
    /\ ~UserSelectInvoked

\* select() or the plot's select callback was called with points, on a facade
\* that has a dataset and does not permit selection.
SelectionDisabledIsInertWitness ==
  /\ ~selectEnabled
  /\ dataset # NULL
  /\ facadeCall.type \in {"select", "onSelect"}
  /\ facadeCall.points # <<>>

\* ------------------------------------------- the selection surface alone
MaxPath == 3
SelectorSites == {<<0, 0>>, <<1, 2>>, <<3, 1>>}

\* What no handler of the selection surface changes.
selectorFrame ==
  <<selectEnabled, interactionMode, selecting, nearestPoint, lastHovered,
    mouseIsDown, isDragSequence, controlsEnabled, worldSpacePointPositions,
    visualizers, backgroundColor, devicePixelRatio, pickingTexture,
    renderTarget, renderLog, notes, pointerAt, gesture, shiftHeld,
    hoverDelivered, pickId, pickColor, pickDecoded, visualizerObjects,
    protocolCalls, visualizerState, cameraVars, labelVars, facadeVars>>

\* The record of a handler call: at is the offset the event carried, start
\* the offset of the onMouseDown of the running gesture when the surface has
\* been in BOX mode from then on (<<>> otherwise).
SelectorCall(op, callbacks, at, start) ==
  [op |-> op, callbacks |-> callbacks, at |-> at, start |-> start]

\* ScatterPlotRectangleSelector.setSelectionMode
SelectorSetSelectionMode ==
  \E mode \in {"BOX", "LASSO"} :
    /\ selectionMode' = mode
    /\ selectorCall' = SelectorCall("setSelectionMode", <<>>, <<>>,
         IF mode = selectionMode THEN selectorCall.start ELSE <<>>)
    /\ threw' = FALSE
    /\ UNCHANGED <<selIsMouseDown, startCoordinates, lastBoundingBox,
                   lassoPath, selectorFrame>>

\* ScatterPlotRectangleSelector.onMouseDown
SelectorOnMouseDown ==
  \E site \in SelectorSites :
    /\ selIsMouseDown' = TRUE
    /\ IF selectionMode = "BOX"
         THEN /\ startCoordinates' = site
              /\ lastBoundingBox' = SelectorMouseDownBox(site[1], site[2])
              /\ UNCHANGED lassoPath
         ELSE /\ lassoPath' = <<site>>
              /\ UNCHANGED <<startCoordinates, lastBoundingBox>>
    /\ selectorCall' = SelectorCall("onMouseDown", <<>>, site,
         IF selectionMode = "BOX" THEN site ELSE <<>>)
    /\ threw' = FALSE
    /\ UNCHANGED <<selectionMode, selectorFrame>>

\* ScatterPlotRectangleSelector.onMouseMove. In BOX mode with no box yet (the
\* button went down in LASSO mode) the write to lastBoundingBox.x throws; a
\* lasso takes a point more while the path is below the model's length.
SelectorOnMouseMove ==
  \E site \in SelectorSites :
    /\ selectionMode = "LASSO" /\ selIsMouseDown => Len(lassoPath) < MaxPath
    /\ IF ~selIsMouseDown
         THEN /\ threw' = FALSE
              /\ UNCHANGED <<lastBoundingBox, lassoPath>>
         ELSE IF selectionMode = "BOX"
           THEN IF lastBoundingBox = UNDEFINED
                  THEN /\ threw' = TRUE
                       /\ UNCHANGED <<lastBoundingBox, lassoPath>>
                  ELSE /\ threw' = FALSE
                       /\ lastBoundingBox' = SelectorMouseMoveBox(
                            startCoordinates, site[1], site[2])
                       /\ UNCHANGED lassoPath
           ELSE /\ threw' = FALSE
                /\ lassoPath' = Append(lassoPath, site)
                /\ UNCHANGED lastBoundingBox
    /\ selectorCall' = SelectorCall("onMouseMove", <<>>, site,
                                     selectorCall.start)
    /\ UNCHANGED <<selIsMouseDown, startCoordinates, selectionMode,
                   selectorFrame>>

\* The callbacks ScatterPlotRectangleSelector.onMouseUp invokes: the box
\* callback with lastBoundingBox, or the lasso callback with the path (handed
\* through simplify() when it has more than three points).
SelectorMouseUpCallbacksBoxOnly(mode, box, path) ==
  IF mode = "BOX" THEN <<[callback |-> "selectionCallback", box |-> box,
                          path |-> <<>>]>>
  ELSE <<>>
SelectorMouseUpCallbacks(mode, box, path) ==
  IF mode = "BOX" THEN <<[callback |-> "selectionCallback", box |-> box,
                          path |-> <<>>]>>
  ELSE <<[callback |-> "lassoCallback", box |-> UNDEFINED, path |-> path]>>

\* ScatterPlotRectangleSelector.onMouseUp
SelectorOnMouseUp ==
  /\ selIsMouseDown' = FALSE
  /\ selectorCall' = SelectorCall("onMouseUp",
       SelectorMouseUpCallbacks(selectionMode, lastBoundingBox, lassoPath),
       <<>>, <<>>)
  /\ lassoPath' = IF selectionMode = "BOX" THEN lassoPath ELSE <<>>
  /\ threw' = FALSE
  /\ UNCHANGED <<startCoordinates, lastBoundingBox, selectionMode,
                 selectorFrame>>

NextSelector ==
  \/ SelectorSetSelectionMode
  \/ SelectorOnMouseDown
  \/ SelectorOnMouseMove
  \/ SelectorOnMouseUp

SpecSelector == Init /\ [][NextSelector]_vars

\* C26: the selection surface invokes a callback only in onMouseUp: none in
\* onMouseDown and onMouseMove, and exactly one in each onMouseUp, the box
\* callback in BOX mode and the lasso callback in LASSO mode.
CallbackOnlyOnMouseUp ==
  /\ selectorCall.op \in {"onMouseDown", "onMouseMove"}
       => selectorCall.callbacks = <<>>
  /\ selectorCall.op = "onMouseUp" =>
       /\ Len(selectorCall.callbacks) = 1
       /\ selectorCall.callbacks[1].callback =
            (IF selectionMode = "BOX" THEN "selectionCallback"
             ELSE "lassoCallback")

\* A lasso of three points was released.
CallbackOnlyOnMouseUpWitness ==
  /\ selectorCall.op = "onMouseUp"
  /\ selectionMode = "LASSO"
  /\ Len(selectorCall.callbacks) = 1
  /\ Len(selectorCall.callbacks[1].path) = MaxPath

\* ------------------------------------------- interleavings of the inputs
\* C27: whenever the pointer button is not held the camera controls are
\* enabled, for every interleaving of pointer events, key events and
\* setInteractionMode calls.
ControlsNeverLeftDisabled == gesture \notin Held => controlsEnabled

\* C28: the pointerUp of a gesture whose pointerDown was not handed to the
\* selection surface (the surface is not in a gesture of its own) sends no
\* select notification, also when the machine got into SELECT during the drag.
SelectOnlyForHandedGesture ==
  [][(MouseUp /\ gesture \in Held /\ ~selIsMouseDown) =>
       ~HasNote(notes', "select")]_vars

\* C29: with the shift key up, selecting is true exactly when the mode last
\* set by setInteractionMode is SELECT.
SelectingAgreesWithMode ==
  ~shiftHeld => (selecting <=> interactionMode = SELECT)

\* C30: when selection is not permitted the selecting flag is false in every
\* state.
NoSelectWhenDisabled == ~selectEnabled => ~selecting

\* ------------------------------------------------ background and picking
\* styles.backgroundColor as the user configures it: white (the default),
\* black, and the darkest blue.
BackgroundInputs == {DEFAULT_BACKGROUND, 0, 1}

\* new ScatterPlot(container, {styles}) with one of the backgrounds.
InitBackground ==
  /\ \E dpr \in DevicePixelRatios, bg \in BackgroundInputs :
       PlotConstructedWithStyle(dpr, bg)
  /\ selectEnabled = FALSE
  /\ CameraConstructedWith(NoCameraParams)
  /\ NoLabels
  /\ FacadeConstructed
  /\ SelectorConstructed

SpecBackground == InitBackground /\ [][NextHover]_vars

\* Every pixel of the region lies on the picking surface and no point covers
\* it.
EmptyRegion(tex, region) ==
  \A k \in DOMAIN region :
    /\ region[k][1] >= 0 /\ region[k][1] < tex.size
    /\ region[k][2] >= 0 /\ region[k][2] < tex.size
    /\ Covering(tex.positions, region[k][1], region[k][2]) = {}

\* C31: a pointer move whose pixels on the picking surface are covered by no
\* point resolves the hover to no point, for every background colour and every
\* point count.
EmptyBackgroundIsNone ==
  [][(MouseMoveAnywhere /\ ~mouseIsDown
        /\ EmptyRegion(pickingTexture,
             HoverRegion(pointerAt'[1], pointerAt'[2], devicePixelRatio)))
       => nearestPoint' = NULL]_vars

\* ------------------------------------------- 3D labels and the picking pass
\* What no call on one visualizer changes.
visualizerFrame ==
  <<plotVars, visualizerObjects, protocolCalls, cameraVars, labelVars,
    facadeVars, selectorVars>>

\* What a pass draws of the 3D labels: whether their mesh is in the scene, the
\* picking uniform of its material and the array of its colour attribute.
Labels3DDrawn(v) ==
  [mesh |-> v.labelsMesh /\ v.scene, points |-> v.pointCount,
   picking |-> v.picking, colors |-> v.colors]

\* new ScatterPlotVisualizer3DLabels(styles), with the fields the render passes
\* read: the label strings and the points (their numbers), the picking uniform
\* and the colour attribute's array, and what the last picking pass drew.
NewLabels3D ==
  [kind |-> "3D_LABELS", scene |-> FALSE, labelStrings |-> 0, pointCount |-> 0,
   geometry |-> FALSE, labelsMesh |-> FALSE, picking |-> "undefined",
   colors |-> "none", error |-> FALSE,
   pickingPass |-> [mesh |-> FALSE, points |-> 0, picking |-> "undefined",
                    colors |-> "none"]]

\* ScatterPlotVisualizer3DLabels.dispose: the mesh leaves the scene, the
\* geometry is dropped.
Labels3DDisposed(v) ==
  [v EXCEPT !.labelsMesh = FALSE, !.geometry = FALSE, !.error = FALSE]

\* ScatterPlotVisualizer3DLabels.createLabels: nothing when the numbers of
\* points and of label strings differ; else a new material (its picking uniform
\* has no value), a new geometry whose colour attribute is a new zero array,
\* and the mesh added to the scene (a TypeError without a scene).
Labels3DCreateLabels(v) ==
  IF v.pointCount # v.labelStrings THEN [v EXCEPT !.error = FALSE]
  ELSE [v EXCEPT !.geometry = TRUE, !.labelsMesh = TRUE,
                 !.picking = "undefined", !.colors = "zeros",
                 !.error = ~v.scene]

\* ScatterPlotVisualizer3DLabels.onPickingRender
Labels3DOnPickingRender(v) ==
  IF ~v.geometry THEN Labels3DCreateLabels(v)
  ELSE [v EXCEPT !.picking = "true", !.colors = "pickingColors",
                 !.error = FALSE]

\* ScatterPlotVisualizer3DLabels.onRender
Labels3DOnDisplayRender(v) ==
  IF ~v.geometry THEN Labels3DCreateLabels(v)
  ELSE [v EXCEPT !.picking = "false", !.colors = "renderColors",
                 !.error = FALSE]

\* One ScatterPlot.render() seen from the visualizer: onPickingRender, the
\* draw into the picking target, onRender, the draw on screen. An error in
\* onPickingRender ends the frame.
Labels3DFrame(v) ==
  LET picked == Labels3DOnPickingRender(v)
  IN IF picked.error THEN picked
     ELSE Labels3DOnDisplayRender(
            [picked EXCEPT !.pickingPass = Labels3DDrawn(picked)])

Labels3DCounts == 0..MaxPoints

ConstructLabels3D ==
  /\ visualizerState.kind = "none"
  /\ visualizerState' = NewLabels3D
  /\ UNCHANGED visualizerFrame

Labels3DSetScene ==
  /\ visualizerState.kind = "3D_LABELS"
  /\ visualizerState' = [visualizerState EXCEPT !.scene = TRUE,
                                                !.error = FALSE]
  /\ UNCHANGED visualizerFrame

\* ScatterPlotVisualizer3DLabels.setLabelStrings
Labels3DSetLabelStrings ==
  /\ visualizerState.kind = "3D_LABELS"
  /\ \E n \in Labels3DCounts :
       visualizerState' =
         Labels3DDisposed([visualizerState EXCEPT !.labelStrings = n])
  /\ UNCHANGED visualizerFrame

\* ScatterPlotVisualizer3DLabels.onPointPositionsChanged
Labels3DOnPointPositionsChanged ==
  /\ visualizerState.kind = "3D_LABELS"
  /\ \E n \in Labels3DCounts :
       visualizerState' =
         Labels3DDisposed([visualizerState EXCEPT !.pointCount = n])
  /\ UNCHANGED visualizerFrame

Labels3DRender ==
  /\ visualizerState.kind = "3D_LABELS"
  /\ visualizerState' = Labels3DFrame(visualizerState)
  /\ UNCHANGED visualizerFrame

Labels3DCallDispose ==
  /\ visualizerState.kind = "3D_LABELS"
  /\ visualizerState' = Labels3DDisposed(visualizerState)
  /\ UNCHANGED visualizerFrame

NextLabels3D ==
  \/ ConstructLabels3D
  \/ Labels3DSetScene
  \/ Labels3DSetLabelStrings
  \/ Labels3DOnPointPositionsChanged
  \/ Labels3DRender
  \/ Labels3DCallDispose

SpecLabels3D == Init /\ [][NextLabels3D]_vars

\* C32: whenever the last picking pass drew the mesh of the 3D labels of at
\* least one point, the mesh was configured for picking: picking uniform true
\* and the colour attribute holding the picking colours.
Labels3DPickingConfigured ==
  (/\ visualizerState.kind = "3D_LABELS"
   /\ visualizerState.pickingPass.mesh
   /\ visualizerState.pickingPass.points >= 1)
    => /\ visualizerState.pickingPass.picking = "true"
       /\ visualizerState.pickingPass.colors = "pickingColors"

\* ------------------------------------------------------ box normalization
\* The box of a drag from s to c: (x, y) its bottom left corner (offsets grow
\* downwards), the sides the distances covered.
NormalizedBox(s, c) ==
  [x |-> IF s[1] <= c[1] THEN s[1] ELSE c[1],
   y |-> IF s[2] >= c[2] THEN s[2] ELSE c[2],
   width |-> IF c[1] >= s[1] THEN c[1] - s[1] ELSE s[1] - c[1],
   height |-> IF c[2] >= s[2] THEN c[2] - s[2] ELSE s[2] - c[2]]

\* C33: in BOX mode onMouseDown at s leaves the box (s, 1, 1), every
\* onMouseMove to c of the gesture leaves the box with x = min, y = max and the
\* absolute differences as sides, onMouseUp reports that box, and onMouseMove
\* with the button not down changes nothing.
BoxNormalization ==
  [][/\ (selectorCall'.op = "onMouseDown" /\ selectionMode = "BOX") =>
          lastBoundingBox' = [x |-> selectorCall'.at[1],
                              y |-> selectorCall'.at[2],
                              width |-> 1, height |-> 1]
     /\ (/\ selectorCall'.op = "onMouseMove"
         /\ selIsMouseDown
         /\ selectorCall'.start # <<>>) =>
          lastBoundingBox' = NormalizedBox(selectorCall'.start,
                                           selectorCall'.at)
     /\ (selectorCall'.op = "onMouseMove" /\ ~selIsMouseDown) =>
          UNCHANGED <<selIsMouseDown, startCoordinates, lastBoundingBox,
                      lassoPath, selectionMode>>
     /\ (selectorCall'.op = "onMouseUp" /\ selectorCall.start # <<>>) =>
          selectorCall'.callbacks[1].box = lastBoundingBox]_vars

\* A drag to the left and downwards on the screen, then released.
BoxNormalizationWitness ==
  /\ selectorCall.op = "onMouseUp"
  /\ Len(selectorCall.callbacks) = 1
  /\ selectorCall.callbacks[1].callback = "selectionCallback"
  /\ selectorCall.callbacks[1].box # UNDEFINED
  /\ selectorCall.callbacks[1].box.x < startCoordinates[1]
  /\ selectorCall.callbacks[1].box.y > startCoordinates[2]
  /\ selectorCall.callbacks[1].box.width = 2
  /\ selectorCall.callbacks[1].box.height = 1

\* ------------------------------------------------------------ click selects
\* The point the picture shows under the pointer (none: NO_POINT_ID), at the
\* pixel the plot reads for the pointer.
PointUnderPointer ==
  IndexAt(pickingTexture,
          HoverRegion(pointerAt[1], pointerAt[2], devicePixelRatio)[1])

\* C34: with selection enabled, the click that ends a gesture without a move in
\* PAN sends a select notification and then a click notification, and the
\* selection the facade makes of the select notification is exactly the point
\* under the pointer, or empty when no point is there.
ClickSelects ==
  [][(Click /\ gesture = "released" /\ ~selecting /\ selectEnabled) =>
       /\ Len(notes') = 2
       /\ notes'[1].type = "select"
       /\ notes'[2].type = "click"
       /\ NewSet(notes'[1].points) =
            (IF PointUnderPointer = NO_POINT_ID THEN <<>>
             ELSE <<PointUnderPointer>>)]_vars

\* ------------------------------------------------------ default colouring
\* The style a point is entitled to: hover over selected over the default,
\* which depends on whether anything is selected.
PointStyle(i, hoverStyle, selectedStyle, unselectedStyle, noSelectionStyle) ==
  IF i = hoverPointIndex THEN hoverStyle
  ELSE IF \E k \in DOMAIN selectedPointIndices : selectedPointIndices[k] = i
    THEN selectedStyle
  ELSE IF selectedPointIndices # <<>> THEN unselectedStyle
  ELSE noSelectionStyle

\* C35: in the attributes the facade generates without a point colorer, every
\* element of the colour of point i is of the hover colour if i is the hover
\* point, else of the selected colour if i is selected, else of the unselected
\* colour when something is selected and of the no-selection colour otherwise;
\* the scale factor of point i follows the same priority.
DefaultColouringPriority ==
  (dataset # NULL /\ pointColors.set /\ pointScaleFactors.set) =>
    /\ Len(pointColors.values) = DatasetPointCount * RGBA_NUM_ELEMENTS
    /\ Len(pointScaleFactors.values) = DatasetPointCount
    /\ \A i \in 0..(DatasetPointCount - 1) :
         /\ \A e \in 1..RGBA_NUM_ELEMENTS :
              pointColors.values[i * RGBA_NUM_ELEMENTS + e] =
                PointStyle(i, "colorHover", "colorSelected",
                           "colorUnselected", "colorNoSelection")
         /\ pointScaleFactors.values[i + 1] =
              PointStyle(i, "scaleHover", "scaleSelected", "scaleDefault",
                         "scaleDefault")

\* The hover point is one of two selected points.
DefaultColouringPriorityWitness ==
  /\ dataset # NULL
  /\ pointColors.set
  /\ DatasetPointCount = MaxPoints
  /\ hoverPointIndex # NULL
  /\ Len(selectedPointIndices) = 2
  /\ \E k \in DOMAIN selectedPointIndices :
       selectedPointIndices[k] = hoverPointIndex

\* C36: at most one animation frame request of the orbit loop is pending, and
\* orbitAnimationId is the id of that request, or null when none is pending.
SingleOrbitRequest ==
  /\ Cardinality(animationFrames.pending) <= 1
  /\ animationFrames.pending = {} => orbitAnimationId = NULL
  /\ animationFrames.pending # {} =>
       animationFrames.pending = {orbitAnimationId}

\* The orbit was started while it was already running: the first request was
\* cancelled and the second one is pending.
SingleOrbitRequestWitness ==
  /\ lastCalls = <<Call("startOrbitAnimation", NULL),
                   Call("startOrbitAnimation", NULL)>>
  /\ animationFrames.next = 3
  /\ animationFrames.pending = {2}

\* C37: with a dataset of N points the hover index is null or in [0, N) and
\* every selected index is in [0, N).
PointIdentitiesValid ==
  dataset # NULL =>
    /\ hoverPointIndex = NULL
         \/ hoverPointIndex \in 0..(DatasetPointCount - 1)
    /\ \A k \in DOMAIN selectedPointIndices :
         selectedPointIndices[k] \in 0..(DatasetPointCount - 1)

\* C38: every visualizer object that setActiveVisualizers or
\* disposeAllVisualizers takes out of the collection, an object replaced by
\* another object of the same id included, has had dispose() called.
RemovedVisualizersDisposed ==
  [][(SetActiveVisualizerObjects \/ DisposeAllVisualizerObjects) =>
       \A k \in DOMAIN visualizerObjects :
         (\A j \in DOMAIN visualizerObjects' :
            visualizerObjects'[j] # visualizerObjects[k])
           => CalledOn(protocolCalls', "dispose", visualizerObjects[k]) # {}
    ]_vars

\* ------------------------------------------- the polylines' sequence index
\* The sequences a caller hands over: index lists over the points' ids.
SequenceInputs == {<<0>>, <<1>>, <<0, 1>>, <<1, 0>>}
SequenceLists ==
  {<<>>} \cup {<<s>> : s \in SequenceInputs}
    \cup {<<s, t>> : s \in SequenceInputs, t \in SequenceInputs}

\* The keys pointSequenceIndices can hold: pointIndex and pointIndex + 1.
IndexKeys == 0..MaxPoints

\* new ScatterPlotVisualizerPolylines(), with the sequences as lists, the
\* polylines as the sequences they were built from and pointSequenceIndices
\* as a map whose absent keys read NULL.
NewPolylineVisualizer ==
  [kind |-> "POLYLINES", scene |-> FALSE, sequences |-> <<>>,
   polylines |-> <<>>, pointSequenceIndices |-> [p \in IndexKeys |-> NULL],
   error |-> FALSE]

\* The two Map.set calls of updateSequenceIndices for entry j of sequence i.
SetPointIndices(map, pointIndex, i) ==
  [map EXCEPT ![pointIndex] = i, ![pointIndex + 1] = i]

\* The inner loop of updateSequenceIndices, from entry j of sequence i on.
RECURSIVE UpdateSequence(_, _, _, _)
UpdateSequence(map, indices, i, j) ==
  IF j > Len(indices) - 1 THEN map
  ELSE UpdateSequence(SetPointIndices(map, indices[j], i), indices, i, j + 1)

\* ScatterPlotVisualizerPolylines.updateSequenceIndices, from sequence i on
\* (sequence i of the code is element i + 1 of the list).
RECURSIVE updateSequenceIndices(_, _, _)
updateSequenceIndices(map, seqs, i) ==
  IF i >= Len(seqs) THEN map
  ELSE updateSequenceIndices(UpdateSequence(map, seqs[i + 1], i, 1), seqs,
                             i + 1)

\* ScatterPlotVisualizerPolylines.getPointSequenceIndex; NULL is undefined.
getPointSequenceIndex(v, pointIndex) == v.pointSequenceIndices[pointIndex]

\* ScatterPlotVisualizerPolylines.createPolylines: the index is brought up to
\* date first; without a scene the removal of an old polyline, or the addition
\* of the first new one, fails.
createPolylines(v) ==
  LET indexed == [v EXCEPT !.pointSequenceIndices =
                    updateSequenceIndices(@, v.sequences, 0)]
  IN IF v.scene THEN [indexed EXCEPT !.polylines = v.sequences]
     ELSE IF v.polylines # <<>> THEN [indexed EXCEPT !.error = TRUE]
     ELSE [indexed EXCEPT !.polylines = <<v.sequences[1]>>, !.error = TRUE]

\* ScatterPlotVisualizerPolylines.onPointPositionsChanged, positions not null
PolylineOnPointPositionsChanged(v) ==
  IF v.sequences = <<>> THEN [v EXCEPT !.error = FALSE]
  ELSE createPolylines([v EXCEPT !.error = FALSE])

\* ScatterPlotVisualizerPolylines.dispose
PolylineDispose(v) ==
  IF v.polylines # <<>> /\ ~v.scene THEN [v EXCEPT !.error = TRUE]
  ELSE [v EXCEPT !.polylines = <<>>, !.error = FALSE]

ConstructPolylineVisualizer ==
  /\ visualizerState.kind = "none"
  /\ visualizerState' = NewPolylineVisualizer
  /\ UNCHANGED visualizerFrame

PolylineSetScene ==
  /\ visualizerState.kind = "POLYLINES"
  /\ visualizerState' = [visualizerState EXCEPT !.scene = TRUE,
                                                !.error = FALSE]
  /\ UNCHANGED visualizerFrame

\* ScatterPlotVisualizerPolylines.setSequences(sequences)
PolylineSetSequences ==
  /\ visualizerState.kind = "POLYLINES"
  /\ \E seqs \in SequenceLists :
       visualizerState' = [visualizerState EXCEPT !.sequences = seqs,
                                                  !.error = FALSE]
  /\ UNCHANGED visualizerFrame

PolylineCallOnPointPositionsChanged ==
  /\ visualizerState.kind = "POLYLINES"
  /\ visualizerState' = PolylineOnPointPositionsChanged(visualizerState)
  /\ UNCHANGED visualizerFrame

PolylineCallDispose ==
  /\ visualizerState.kind = "POLYLINES"
  /\ visualizerState' = PolylineDispose(visualizerState)
  /\ UNCHANGED visualizerFrame

NextPolylines ==
  \/ ConstructPolylineVisualizer
  \/ PolylineSetScene
  \/ PolylineSetSequences
  \/ PolylineCallOnPointPositionsChanged
  \/ PolylineCallDispose

SpecPolylines == Init /\ [][NextPolylines]_vars

\* Point p is one of the indices of a sequence of the list.
InSequence(seqs, k, p) == \E j \in DOMAIN seqs[k] : seqs[k][j] = p
BelongsToSequence(seqs, p) == \E k \in DOMAIN seqs : InSequence(seqs, k, p)

\* The lookup of visualizer v answers for the sequences v holds.
LookupAnswers(v) ==
  \A p \in PointInputs :
    LET i == getPointSequenceIndex(v, p)
    IN IF BelongsToSequence(v.sequences, p)
         THEN /\ i # NULL
              /\ i + 1 \in DOMAIN v.sequences
              /\ InSequence(v.sequences, i + 1, p)
         ELSE i = NULL

\* C40: once the polylines are built for the current sequences,
\* getPointSequenceIndex(p) is the index of a current sequence that contains
\* p when p belongs to a sequence, and undefined when it belongs to none.
PointSequenceLookup ==
  [][(/\ PolylineCallOnPointPositionsChanged
      /\ ~visualizerState'.error
      /\ visualizerState'.sequences # <<>>)
       => LookupAnswers(visualizerState')]_vars

\* ------------------------------------------------ the facade's sequences
\* ScatterGL.generateLineSegmentColorMap: the length of each polyline's array.
generateLineSegmentColorMap(seqs) ==
  [k \in DOMAIN seqs |-> 2 * (Len(seqs[k]) - 1) * 3]

\* ScatterGL.generateLineSegmentOpacityArray, v being this.polylineVisualizer
generateLineSegmentOpacityArray(seqs, v, selected) ==
  IF Len(selected) > 0
    THEN LET opacities == [k \in DOMAIN seqs |-> "deselectedOpacity"]
             i == getPointSequenceIndex(v, selected[1])
         IN IF i # NULL THEN TypedArrayWrite(opacities, i, "selectedOpacity")
            ELSE opacities
    ELSE [k \in DOMAIN seqs |-> "defaultOpacity"]

\* ScatterGL.generateLineSegmentWidthArray, v being this.polylineVisualizer
generateLineSegmentWidthArray(seqs, v, selected) ==
  LET widths == [k \in DOMAIN seqs |-> "defaultLineWidth"]
  IN IF Len(selected) > 0
       THEN LET i == getPointSequenceIndex(v, selected[1])
            IN IF i # NULL
                 THEN TypedArrayWrite(widths, i, "selectedLineWidth")
                 ELSE widths
       ELSE widths

\* this.polylineVisualizer!.getPointSequenceIndex(...) is reached while
\* this.polylineVisualizer is undefined.
PolylineVisualizerMissing(v, selected) ==
  Len(selected) > 0 /\ v.kind = "none"

\* ScatterGL.updatePolylineAttributes with a dataset: what the plot is handed.
updatePolylineAttributes(seqs, v, selected) ==
  [polylineColors |-> generateLineSegmentColorMap(seqs),
   polylineOpacities |-> generateLineSegmentOpacityArray(seqs, v, selected),
   polylineWidths |-> generateLineSegmentWidthArray(seqs, v, selected)]

\* ScatterGL.setVisualizers in POINT render mode with labels on hover: the
\* list it hands to setActiveVisualizers.
activeVisualizers(seqs) ==
  <<"SPRITES">> \o (IF Len(seqs) > 0 THEN <<"POLYLINES">> ELSE <<>>)
    \o <<"CANVAS_LABELS">>

\* What setVisualizers does to this.polylineVisualizer: with sequences it is
\* created if need be, handed the sequences and attached by
\* setActiveVisualizers (setScene, onResize, onPointPositionsChanged); without
\* sequences an active one is disposed by setActiveVisualizers.
setVisualizers(v, seqs, active) ==
  IF Len(seqs) > 0
    THEN LET made == IF v.kind = "none" THEN NewPolylineVisualizer ELSE v
         IN PolylineOnPointPositionsChanged(
              [made EXCEPT !.sequences = seqs, !.scene = TRUE])
    ELSE IF \E k \in DOMAIN active : active[k] = "POLYLINES"
           THEN PolylineDispose(v)
           ELSE v

\* ScatterPlot.render() once the active visualizers are vis.
DoRenderWith(vis) ==
  /\ pickingTexture' = RenderPickingTexture(worldSpacePointPositions, vis,
                         backgroundColor, devicePixelRatio)
  /\ renderLog' = RenderCalls(vis,
                    MakeRenderContext(worldSpacePointPositions,
                                      backgroundColor))
  /\ renderTarget' = TargetAfter(renderLog')

\* The sequence lists the user hands to the facade.
FacadeSequenceInputs == {<<>>, <<<<0, 1>>>>, <<<<1, 0>>, <<0>>>>}

\* What setSequences leaves alone.
sequencesFrame ==
  <<selectEnabled, interactionMode, selecting, nearestPoint, lastHovered,
    mouseIsDown, isDragSequence, controlsEnabled, selIsMouseDown,
    startCoordinates, lastBoundingBox, worldSpacePointPositions,
    backgroundColor, devicePixelRatio, threw, pointerAt, gesture, shiftHeld,
    hoverDelivered, pickId, pickColor, pickDecoded, visualizerObjects,
    protocolCalls, cameraParams, dimensions, camera, orbitCameraControls,
    orbitAnimationId, animationFrames, dataset, orbitCancelled, lastCalls,
    labelVars, hoverPointIndex, selectedPointIndices, pointColors,
    pointScaleFactors, labels, selectorVars>>

\* ScatterGL.setSequences(sequences): the field is assigned, then the polyline
\* attributes are computed, then the visualizers are set, then the plot is
\* rendered. An error ends the call where it is raised.
SetSequences ==
  \E seqs \in FacadeSequenceInputs :
    /\ facadeCall' = PointNote("setSequences", NULL)
    /\ userCalls' = <<>>
    /\ sequences' = seqs
    /\ notes' = <<>>
    /\ IF dataset # NULL
            /\ PolylineVisualizerMissing(visualizerState,
                                         selectedPointIndices)
         THEN /\ raised' = "TypeError"
              /\ NoRender
              /\ UNCHANGED <<polylineAttributes, visualizers,
                             visualizerState>>
         ELSE /\ raised' = "none"
              /\ polylineAttributes' =
                   IF dataset # NULL
                     THEN updatePolylineAttributes(seqs, visualizerState,
                                                   selectedPointIndices)
                     ELSE polylineAttributes
              /\ visualizerState' =
                   setVisualizers(visualizerState, seqs, visualizers)
              /\ visualizers' =
                   NextVisualizers(visualizers, activeVisualizers(seqs))
              /\ IF dataset # NULL THEN DoRenderWith(visualizers')
                 ELSE NoRender
    /\ UNCHANGED sequencesFrame

\* What render leaves alone.
renderFrame ==
  <<selectEnabled, interactionMode, selecting, nearestPoint, lastHovered,
    mouseIsDown, isDragSequence, selIsMouseDown, startCoordinates,
    lastBoundingBox, backgroundColor, devicePixelRatio, threw, pointerAt,
    gesture, shiftHeld, hoverDelivered, pickId, pickColor, pickDecoded,
    visualizerObjects, protocolCalls, cameraParams, labelVars,
    hoverPointIndex, selectedPointIndices, sequences, polylineAttributes,
    selectorVars>>

\* ScatterGL.render(dataset) with rotateOnStart left at its default:
\* updateDataset (which renders with the visualizers active so far),
\* setVisualizers, startOrbitAnimation.
FacadeRender ==
  \E d \in DatasetDimensions, positions \in DatasetLayouts :
    LET cameraDef == makeDefaultCameraDef(d, NoCameraParams)
        made == IF dimensions # d
                  THEN [Orbit EXCEPT !.controls =
                          makeOrbitControls(~cameraDef.orthographic)]
                  ELSE Orbit
    IN /\ d = 3 => animationFrames.next <= MaxFrames
       /\ lastCalls' = Logged(Call("render", d))
       /\ facadeCall' = PointNote("render", NULL)
       /\ userCalls' = <<>>
       /\ dataset' = d
       /\ dimensions' = d
       /\ camera' = IF dimensions # d THEN CameraOf(cameraDef, made.controls)
                    ELSE camera
       /\ controlsEnabled' = IF dimensions # d THEN TRUE ELSE controlsEnabled
       /\ SetOrbit(startOrbitAnimation(d, made))
       /\ orbitCancelled' = IF d = 3 THEN FALSE ELSE orbitCancelled
       /\ updateScatterPlotAttributes(Len(positions), hoverPointIndex,
                                      selectedPointIndices)
       /\ worldSpacePointPositions' = positions
       /\ raised' = "none"
       /\ DoRenderOf(positions)
       /\ notes' = <<>>
       /\ visualizerState' =
            setVisualizers(visualizerState, sequences, visualizers)
       /\ visualizers' =
            NextVisualizers(visualizers, activeVisualizers(sequences))
       /\ UNCHANGED renderFrame

NextSequences ==
  \/ FacadeRender
  \/ Select
  \/ SetSequences

SpecSequences == Init /\ [][NextSequences]_vars

\* C39: setSequences completes without error in every facade state: the
\* polyline visualizer exists whenever the polyline attributes are computed.
SetSequencesSafe == [][SetSequences => raised' = "none"]_vars

====
